---- MODULE Spec2Model ----
(***************************************************************************)
(* Model of the tenant access service (src/src/services/remoteDb.ts), of   *)
(* the tenant session manager (src/src/services/db.ts), of the auth        *)
(* context that drives them (AuthProvider) and of the sharing of a board   *)
(* (DrawingBoard.handleShare) of the collaborative drawing board.          *)
(*                                                                         *)
(* An e-mail address "a@x.com" is the pair <<"a", "x.com">>, so that       *)
(* tenantEmail.split('@')[0] is a computation and not the identity.  A     *)
(* document id of the relation store is a tuple as well: an e-mail, or     *)
(* <<"users">> for the literal id 'users'.                                 *)
(*                                                                         *)
(* Every await of the code is a point where another caller may run; the    *)
(* code between two awaits is one action.  The synchronous body of close() *)
(* is taken one statement at a time, with every other caller held back, so *)
(* that the order of its statements can be observed.                       *)
(*                                                                         *)
(* The document store itself (PouchDB) is outside the repository: get and  *)
(* put answer by HTTP status, any remote request may fail (500), a close() *)
(* on a closed handle is rejected, a put is accepted only on a leaf        *)
(* revision, replication keeps every leaf and get reads the winning one,   *)
(* and a replication started with retry: true backs off and tries again    *)
(* after a transport error.                                                *)
(***************************************************************************)
EXTENDS Integers, Sequences, FiniteSets, TLC

VARIABLES
    envSet,      \* the three VITE_COUCHDB_* parameters are all present
    store,       \* documents of the remote relation store, by _id
    rpc,         \* position of each caller inside a RemoteDbService method
    rarg,        \* arguments and locals of the call each caller is in
    hist,        \* completed RemoteDbService calls, in order of completion
    dbs,         \* every local replica handle created so far (new PouchDB(name))
    db,          \* DatabaseService.db: index into dbs
    syncs,       \* every replication handle created so far (db.sync(...))
    syncHandler, \* DatabaseService.syncHandler: index into syncs, 0 for null
    tenantId,    \* DatabaseService.tenantId, <<>> for null
    isInitialized,       \* DatabaseService.isInitialized
    feeds,       \* every change feed created so far (db.changes(...))
    activeChangesFeeds,  \* DatabaseService.activeChangesFeeds: indices into feeds
    ppc,         \* position of each caller inside a DatabaseService method
    parg,        \* arguments and locals of the call each caller is in
    last,        \* outcome of the DatabaseService call the last step completed, if any
    ops,         \* number of initialize / syncWithRemote / close calls started
    tornDown,    \* feeds, not ended, of the replicas on which a close() has returned
    user,        \* AuthProvider's `user` state: the signed-in e-mail, <<>> for null
    replicas,    \* the leaf revisions of the board document in each database
    hpc,         \* position of each browser session inside handleShare
    harg,        \* the document a handleShare call has read
    bdoc,        \* the Board document of the open board in the local replica
    sdocs,       \* the Shape documents of the open board in the local replica
    drawingState,\* DrawingBoard's drawingState: shapes and currentShape
    boardState,  \* DrawingBoard's boardState: board and error
    cpc,         \* position of loadBoard, of the changes feed and of handleDeleteBoard
    carg,        \* the query results loadBoard and handleDeleteBoard hold
    conts,       \* the handlers waiting behind `await db.put(shapeDoc)`, in order
    bq,          \* the changes the board's feed has not delivered yet
    ids,         \* number of ids nanoid() has produced
    now,         \* the clock new Date() reads
    kv,          \* the documents of a local replica, each with its _id and _rev
    kpc,         \* position of the caller that rewrites a document
    karg,        \* the document that caller has read, and what it does with it
    klast,       \* outcome of the document operation the last step completed, if any
    written,     \* for each id, what the last completed write of it was given
    opsTenant    \* `tenantId` of the createDatabaseOperations object, <<>> for null

tenantVars == <<store, rpc, rarg, hist>>

sessVars == <<dbs, db, syncs, syncHandler, tenantId, isInitialized, feeds,
              activeChangesFeeds, ppc, parg, last, ops, tornDown>>

\* state of the React components
shareVars == <<replicas, hpc, harg>>

boardVars == <<bdoc, sdocs, drawingState, boardState, cpc, carg, conts, bq, ids, now>>

docVars == <<kv, kpc, karg, klast, written, opsTenant>>

appVars == <<user, shareVars, boardVars, docVars>>

vars == <<envSet, store, rpc, rarg, hist, dbs, db, syncs, syncHandler, tenantId,
          isInitialized, feeds, activeChangesFeeds, ppc, parg, last, ops, tornDown,
          user, replicas, hpc, harg,
          bdoc, sdocs, drawingState, boardState, cpc, carg, conts, bq, ids, now,
          kv, kpc, karg, klast, written, opsTenant>>

(***************************************************************************)
(* Bounds                                                                  *)
(***************************************************************************)
MaxCalls == 3

MaxOps == 2

MaxFeeds == 1

\* generations a board document may grow beyond its first revision
MaxShares == 2

(***************************************************************************)
(* Values                                                                  *)
(***************************************************************************)
Callers == {"c1", "c2"}

Emails == {<<"a", "x.com">>, <<"b", "x.com">>}

UsersDocId == <<"users">>

DocIds == Emails \cup {UsersDocId}

\* the users a tenant is shared with: the tenants' owners and one more
Principals == Emails \cup {<<"c", "x.com">>}

NoDoc == [exists |-> FALSE, users |-> <<>>, owner |-> <<>>, rev |-> 0]

NoArg == [op |-> "none", t |-> <<>>, p |-> <<>>, start |-> 0, rev |-> 0, users |-> <<>>]

Includes(seq, x) == \E i \in 1..Len(seq) : seq[i] = x

(***************************************************************************)
(* The remote document store: get and put by _id with revision check       *)
(***************************************************************************)
\* status of remoteDb.get(id): 200 or 404
GetStatus(id) == IF store[id].exists THEN 200 ELSE 404

\* a store that accepts every put, whatever its revision
PutStatusBlind(id, rev) == 201

\* status of remoteDb.put(doc): a put without _rev on an existing document, or
\* with a _rev that is not the current one, is a 409 conflict
PutStatus(id, rev) == IF store[id].exists
                      THEN IF rev = store[id].rev THEN 201 ELSE 409
                      ELSE IF rev = 0 THEN 201 ELSE 409

InFlight == Cardinality({c \in Callers : rpc[c] # "idle"})

CanCall == Len(hist) + InFlight < MaxCalls

\* one completed call: its arguments, the status of its last remote request (0 when
\* none was made), what the caller got, the number of calls that had completed
\* when it started and the tenant document as the call left it
Completed(c, status, res, err, st) ==
    Append(hist, [op |-> rarg[c].op, t |-> rarg[c].t, p |-> rarg[c].p,
                  status |-> status, res |-> res, err |-> err,
                  start |-> rarg[c].start, doc |-> st[rarg[c].t]])

Return(c, status, res, err, st) ==
    /\ hist' = Completed(c, status, res, err, st)
    /\ rpc' = [rpc EXCEPT ![c] = "idle"]
    /\ rarg' = [rarg EXCEPT ![c] = NoArg]

(***************************************************************************)
(* RemoteDbService.verifyTenantAccess                                      *)
(***************************************************************************)
\* verifyTenantAccess is called: getRemoteDb, up to `await remoteDb.get(tenantEmail)`
VerifyCalled(c, t, p) ==
    /\ rpc[c] = "idle"
    /\ CanCall
    /\ LET a == [NoArg EXCEPT !.op = "verifyTenantAccess", !.t = t, !.p = p,
                              !.start = Len(hist)]
       IN IF envSet
          THEN /\ rpc' = [rpc EXCEPT ![c] = "vt_get"]
               /\ rarg' = [rarg EXCEPT ![c] = a]
               /\ UNCHANGED hist
          ELSE \* getRemoteDb throws; the error has no status and is rethrown
               /\ hist' = Append(hist, [op |-> a.op, t |-> t, p |-> p, status |-> 0,
                                        res |-> "throw", err |-> "config",
                                        start |-> a.start, doc |-> store[t]])
               /\ UNCHANGED <<rpc, rarg>>

VerifyBegin(c, t, p) ==
    /\ VerifyCalled(c, t, p)
    /\ UNCHANGED <<envSet, store>>
    /\ UNCHANGED <<sessVars, appVars>>

\* verifyTenantAccess answering false on every failed get, not only on 404
VerifyOutcomeSwallow(status, users, p) ==
    IF status = 200
    THEN [res |-> IF Includes(users, p) THEN "true" ELSE "false", err |-> "none"]
    ELSE [res |-> "false", err |-> "none"]

\* the value verifyTenantAccess produces from the outcome of remoteDb.get
VerifyOutcome(status, users, p) ==
    IF status = 200
    THEN [res |-> IF Includes(users, p) THEN "true" ELSE "false", err |-> "none"]
    ELSE IF status = 404
         THEN [res |-> "false", err |-> "none"]
         ELSE [res |-> "throw", err |-> "transport"]

VerifyGet(c) ==
    /\ rpc[c] = "vt_get"
    /\ \E status \in {GetStatus(rarg[c].t), 500} :
          LET o == VerifyOutcome(status, store[rarg[c].t].users, rarg[c].p)
          IN Return(c, status, o.res, o.err, store)
    /\ UNCHANGED <<envSet, store>>
    /\ UNCHANGED <<sessVars, appVars>>

(***************************************************************************)
(* RemoteDbService.createTenant                                            *)
(***************************************************************************)
\* the _id the existence check reads: the literal 'users'
ExistsCheckId(t) == UsersDocId

\* createTenant forgetting to enrol the owner
NewTenantDocNoMember(t) == [exists |-> TRUE, users |-> <<>>, owner |-> t, rev |-> 1]

\* the document createTenant puts (createdAt/updatedAt are not modelled)
NewTenantDoc(t) == [exists |-> TRUE, users |-> <<t>>, owner |-> t, rev |-> 1]

\* what createTenant does with the status of its put
CreatePutOutcome(status) ==
    IF status = 201
    THEN [res |-> "true", err |-> "none"]
    ELSE IF status = 409
         THEN [res |-> "throw", err |-> "conflict"]
         ELSE [res |-> "throw", err |-> "transport"]

\* createTenant is called: getRemoteDb, up to `await remoteDb.get('users')`
CreateCalled(c, t) ==
    /\ rpc[c] = "idle"
    /\ CanCall
    /\ LET a == [NoArg EXCEPT !.op = "createTenant", !.t = t, !.p = t,
                              !.start = Len(hist)]
       IN IF envSet
          THEN /\ rpc' = [rpc EXCEPT ![c] = "ct_get"]
               /\ rarg' = [rarg EXCEPT ![c] = a]
               /\ UNCHANGED hist
          ELSE /\ hist' = Append(hist, [op |-> a.op, t |-> t, p |-> t, status |-> 0,
                                        res |-> "throw", err |-> "config",
                                        start |-> a.start, doc |-> store[t]])
               /\ UNCHANGED <<rpc, rarg>>

CreateBegin(c, t) ==
    /\ CreateCalled(c, t)
    /\ UNCHANGED <<envSet, store>>
    /\ UNCHANGED <<sessVars, appVars>>

CreateGet(c) ==
    /\ rpc[c] = "ct_get"
    /\ \E status \in {GetStatus(ExistsCheckId(rarg[c].t)), 500} :
          IF status = 200
          THEN Return(c, status, "false", "none", store)
          ELSE IF status = 404
               THEN /\ rpc' = [rpc EXCEPT ![c] = "ct_put"]
                    /\ UNCHANGED <<rarg, hist>>
               ELSE Return(c, status, "throw", "transport", store)
    /\ UNCHANGED <<envSet, store>>
    /\ UNCHANGED <<sessVars, appVars>>

CreatePut(c) ==
    /\ rpc[c] = "ct_put"
    /\ \E status \in {PutStatus(rarg[c].t, 0), 500} :
          LET o  == CreatePutOutcome(status)
              st == IF status = 201
                    THEN [store EXCEPT ![rarg[c].t] = NewTenantDoc(rarg[c].t)]
                    ELSE store
          IN /\ store' = st
             /\ Return(c, status, o.res, o.err, st)
    /\ UNCHANGED envSet
    /\ UNCHANGED <<sessVars, appVars>>

(***************************************************************************)
(* RemoteDbService.addUserToTenant                                         *)
(***************************************************************************)
AddBegin(c, t, p) ==
    /\ rpc[c] = "idle"
    /\ CanCall
    /\ LET a == [NoArg EXCEPT !.op = "addUserToTenant", !.t = t, !.p = p,
                              !.start = Len(hist)]
       IN IF envSet
          THEN /\ rpc' = [rpc EXCEPT ![c] = "au_get"]
               /\ rarg' = [rarg EXCEPT ![c] = a]
               /\ UNCHANGED hist
          ELSE /\ hist' = Append(hist, [op |-> a.op, t |-> t, p |-> p, status |-> 0,
                                        res |-> "throw", err |-> "config",
                                        start |-> a.start, doc |-> store[t]])
               /\ UNCHANGED <<rpc, rarg>>
    /\ UNCHANGED <<envSet, store>>
    /\ UNCHANGED <<sessVars, appVars>>

\* addUserToTenant taking nobody for a member
AlreadyMemberNever(users, p) == FALSE

\* usersDoc.users.includes(userEmail)
AlreadyMember(users, p) == Includes(users, p)

AddGet(c) ==
    /\ rpc[c] = "au_get"
    /\ \E status \in {GetStatus(rarg[c].t), 500} :
          IF status = 200
          THEN IF AlreadyMember(store[rarg[c].t].users, rarg[c].p)
               THEN Return(c, status, "true", "none", store)
               ELSE /\ rpc' = [rpc EXCEPT ![c] = "au_put"]
                    /\ rarg' = [rarg EXCEPT ![c].rev = store[rarg[c].t].rev,
                                            ![c].users = Append(store[rarg[c].t].users,
                                                                rarg[c].p)]
                    /\ UNCHANGED hist
          ELSE IF status = 404
               THEN Return(c, status, "throw", "notfound", store)
               ELSE Return(c, status, "throw", "transport", store)
    /\ UNCHANGED <<envSet, store>>
    /\ UNCHANGED <<sessVars, appVars>>

AddPut(c) ==
    /\ rpc[c] = "au_put"
    /\ \E status \in {PutStatus(rarg[c].t, rarg[c].rev), 500} :
          LET st == IF status = 201
                    THEN [store EXCEPT ![rarg[c].t].users = rarg[c].users,
                                       ![rarg[c].t].rev = rarg[c].rev + 1]
                    ELSE store
          IN /\ store' = st
             /\ IF status = 201
                THEN Return(c, status, "true", "none", st)
                ELSE IF status = 409
                     THEN Return(c, status, "throw", "conflict", st)
                     ELSE Return(c, status, "throw", "transport", st)
    /\ UNCHANGED envSet
    /\ UNCHANGED <<sessVars, appVars>>

(***************************************************************************)
(* DatabaseService: values                                                 *)
(***************************************************************************)
Procs == {"p1", "p2"}

\* tenantEmail.split('@')[0]
TenantIdOf(email) == <<email[1]>>

\* `${tenantEmail.split('@')[0]}-collaborative-board`
DbName(email) == <<email[1], "-collaborative-board">>

\* `${remoteUrl}/${tenantId}-collaborative-board`
RemoteDbUrl(email) == <<"VITE_COUCHDB_URL", email[1], "-collaborative-board">>

\* the handle the constructor opens
TempDb == [name |-> <<"temp-db">>, status |-> "open", closes |-> 0]

\* the promise the constructor stores; nothing ever replaces it
initPromise == "resolved"

\* locals of a call: its tenantEmail, the method, whether its db.close() resolved, the
\* handle it closed, the next statement of close(), the feeds created before an
\* initialize was called, and a fact about the moment of the call (initialize: a
\* session of another tenant was active; close: the replica was already closed;
\* document operation: an initialize was in progress)
NoParg == [t |-> <<>>, via |-> "none", ok |-> TRUE, h |-> 0, step |-> 0, nf |-> 0,
           pre |-> FALSE, by |-> "none", u |-> <<>>, open |-> FALSE]

NoLast == [op |-> "none", res |-> "none", err |-> "none", pre |-> FALSE]

\* a caller is inside the synchronous body of close(); nobody else runs meanwhile
Free == \A q \in Procs : ppc[q] # "closing"

InitPcs == {"init_closing", "sync_remote", "sync_closing", "init_finish"}

\* some initialize() call has started and not yet returned or thrown
InitInProgress == \E q \in Procs : ppc[q] \in InitPcs /\ parg[q].via = "initialize"

(***************************************************************************)
(* The document store's handles                                            *)
(***************************************************************************)
\* db.close() on a handle: it resolves on an open handle, is rejected ('database is
\* closed') on a closed one, and does either on a handle whose close is pending,
\* depending on whether the handle had finished opening
CloseOutcomes(h) == IF dbs[h].status = "open" THEN {TRUE}
                    ELSE IF dbs[h].status = "closing" THEN {TRUE, FALSE}
                    ELSE {FALSE}

CloseCalled(h) == [dbs EXCEPT ![h].status = IF @ = "open" THEN "closing" ELSE @,
                              ![h].closes = @ + 1]

\* a close has resolved: the handle is dead, and its name and the calls made on it
\* are of no consequence any more
CloseResolved(h) == [dbs EXCEPT ![h] = [name |-> <<>>, status |-> "closed",
                                        closes |-> 0]]

NewHandle(email) == [name |-> DbName(email), status |-> "open", closes |-> 0]

\* syncHandler.cancel(), guarded by `if (this.syncHandler)`; cancelling twice is harmless
CancelSync(s) == IF s = 0 THEN syncs ELSE [syncs EXCEPT ![s].cancelled = TRUE]

\* a read or write on a handle: it works on an open handle and is rejected on a closed one
DocOutcomes(h) == IF dbs[h].status = "open" THEN {TRUE}
                  ELSE IF dbs[h].status = "closing" THEN {TRUE, FALSE}
                  ELSE {FALSE}

Throw(p, op, err) ==
    /\ last' = [op |-> op, res |-> "throw", err |-> err, pre |-> parg[p].pre]
    /\ ppc' = [ppc EXCEPT ![p] = "idle"]
    /\ parg' = [parg EXCEPT ![p] = NoParg]

Done(p, op) ==
    /\ last' = [op |-> op, res |-> "ok", err |-> "none", pre |-> parg[p].pre]
    /\ ppc' = [ppc EXCEPT ![p] = "idle"]
    /\ parg' = [parg EXCEPT ![p] = NoParg]

(***************************************************************************)
(* DatabaseService.initialize and DatabaseService.syncWithRemote           *)
(***************************************************************************)
\* a session is active, for a tenant other than the one of tenantEmail
SessionOfOther(email) ==
    /\ isInitialized
    /\ tenantId # <<>>
    /\ tenantId # TenantIdOf(email)
    /\ dbs[db].status = "open"

\* initialize, up to `await this.db.close()`; by and u say which function of the
\* auth context called it, on what ground and for which signed-in user
InitializeCalled(p, t, by, u) ==
    /\ Free /\ ops < MaxOps
    /\ ops' = ops + 1
    /\ syncs' = CancelSync(syncHandler)
    /\ \E ok \in CloseOutcomes(db) :
          parg' = [parg EXCEPT ![p] = [NoParg EXCEPT !.t = t, !.via = "initialize",
                                                     !.ok = ok, !.h = db,
                                                     !.nf = Len(feeds),
                                                     !.pre = SessionOfOther(t),
                                                     !.by = by, !.u = u]]
    /\ dbs' = CloseCalled(db)
    /\ ppc' = [ppc EXCEPT ![p] = "init_closing"]
    /\ last' = NoLast
    /\ UNCHANGED <<db, syncHandler, tenantId, isInitialized, feeds,
                   activeChangesFeeds, tornDown>>

\* initialize called by anyone
InitBegin(p, t) ==
    /\ ppc[p] = "idle"
    /\ InitializeCalled(p, t, "none", <<>>)
    /\ UNCHANGED <<envSet, tenantVars, appVars>>

\* initialize, from the close to the `await remoteDb` inside syncWithRemote
InitOpen(p) ==
    /\ ppc[p] = "init_closing" /\ Free
    /\ IF parg[p].ok
       THEN /\ dbs' = Append(CloseResolved(parg[p].h), NewHandle(parg[p].t))
            /\ db' = Len(dbs) + 1
            /\ syncs' = CancelSync(syncHandler)
            /\ ppc' = [ppc EXCEPT ![p] = "sync_remote"]
            /\ UNCHANGED parg /\ last' = NoLast
       ELSE /\ Throw(p, "initialize", "closed")
            /\ UNCHANGED <<dbs, db, syncs>>
    /\ UNCHANGED <<syncHandler, tenantId, isInitialized, feeds, activeChangesFeeds,
                   ops, tornDown>>
    /\ UNCHANGED <<envSet, tenantVars, appVars>>

\* syncWithRemote called on its own, up to `await this.getRemoteDb(...)`
SyncBegin(p, t) ==
    /\ ppc[p] = "idle" /\ Free /\ ops < MaxOps
    /\ ops' = ops + 1
    /\ syncs' = CancelSync(syncHandler)
    /\ parg' = [parg EXCEPT ![p] = [NoParg EXCEPT !.t = t, !.via = "syncWithRemote"]]
    /\ ppc' = [ppc EXCEPT ![p] = "sync_remote"]
    /\ last' = NoLast
    /\ UNCHANGED <<dbs, db, syncHandler, tenantId, isInitialized, feeds,
                   activeChangesFeeds, tornDown>>
    /\ UNCHANGED <<envSet, tenantVars, appVars>>

\* syncWithRemote, from the result of getRemoteDb to `await this.db.close()`
SyncRemote(p) ==
    /\ ppc[p] = "sync_remote" /\ Free
    /\ IF envSet
       THEN /\ \E ok \in CloseOutcomes(db) :
                  parg' = [parg EXCEPT ![p].ok = ok, ![p].h = db]
            /\ dbs' = CloseCalled(db)
            /\ ppc' = [ppc EXCEPT ![p] = "sync_closing"]
            /\ last' = NoLast
       ELSE /\ Throw(p, parg[p].via, "config")
            /\ UNCHANGED dbs
    /\ UNCHANGED <<db, syncs, syncHandler, tenantId, isInitialized, feeds,
                   activeChangesFeeds, ops, tornDown>>
    /\ UNCHANGED <<envSet, tenantVars, appVars>>

\* syncWithRemote, from the close to its return
SyncOpen(p) ==
    /\ ppc[p] = "sync_closing" /\ Free
    /\ IF parg[p].ok
       THEN /\ dbs' = Append(CloseResolved(parg[p].h), NewHandle(parg[p].t))
            /\ db' = Len(dbs) + 1
            /\ syncs' = Append(syncs, [db |-> Len(dbs) + 1,
                                       key |-> parg[p].t,
                                       local |-> DbName(parg[p].t),
                                       remote |-> RemoteDbUrl(parg[p].t),
                                       cancelled |-> FALSE,
                                       replaced |-> syncHandler,
                                       paused |-> FALSE])
            /\ syncHandler' = Len(syncs) + 1
            /\ tenantId' = TenantIdOf(parg[p].t)
            /\ IF parg[p].via = "initialize"
               THEN /\ ppc' = [ppc EXCEPT ![p] = "init_finish"]
                    /\ UNCHANGED parg /\ last' = NoLast
               ELSE Done(p, "syncWithRemote")
       ELSE /\ Throw(p, parg[p].via, "closed")
            /\ UNCHANGED <<dbs, db, syncs, syncHandler, tenantId>>
    /\ UNCHANGED <<isInitialized, feeds, activeChangesFeeds, ops, tornDown>>
    /\ UNCHANGED <<envSet, tenantVars, appVars>>

\* initialize, after `await this.syncWithRemote(...)`
InitFinish(p) ==
    /\ ppc[p] = "init_finish" /\ Free
    /\ isInitialized' = TRUE
    /\ Done(p, "initialize")
    /\ UNCHANGED <<dbs, db, syncs, syncHandler, tenantId, feeds, activeChangesFeeds,
                   ops, tornDown>>
    /\ UNCHANGED <<envSet, tenantVars, appVars>>

(***************************************************************************)
(* The events of the live replication (the handlers of syncWithRemote)     *)
(***************************************************************************)
\* handlers that give the replication up at its first error
OnSyncErrorCancel(s) == [syncs EXCEPT ![s].paused = TRUE, ![s].cancelled = TRUE]

\* what the 'paused' and 'error' handlers do when the stream reports an error:
\* they log it; the replication, started with retry: true, backs off
OnSyncError(s) == [syncs EXCEPT ![s].paused = TRUE]

\* a transport error on the stream of a replication that has not been cancelled
SyncError(s) ==
    /\ Free
    /\ ~syncs[s].cancelled /\ ~syncs[s].paused
    /\ syncs' = OnSyncError(s)
    /\ last' = NoLast
    /\ UNCHANGED <<dbs, db, syncHandler, tenantId, isInitialized, feeds,
                   activeChangesFeeds, ppc, parg, ops, tornDown>>
    /\ UNCHANGED <<envSet, tenantVars, appVars>>

\* the replication tries again and resumes: the 'active' handler logs it
SyncRetry(s) ==
    /\ Free
    /\ ~syncs[s].cancelled /\ syncs[s].paused
    /\ syncs' = [syncs EXCEPT ![s].paused = FALSE]
    /\ last' = NoLast
    /\ UNCHANGED <<dbs, db, syncHandler, tenantId, isInitialized, feeds,
                   activeChangesFeeds, ppc, parg, ops, tornDown>>
    /\ UNCHANGED <<envSet, tenantVars, appVars>>

(***************************************************************************)
(* DatabaseService.close                                                   *)
(***************************************************************************)
\* close() closing the replica before it cancels anything
CloseStepsDbFirst == <<"db", "feeds", "sync">>

\* the order of the statements of close()
CloseSteps == <<"feeds", "sync", "db">>

\* one statement of close(): cancel and clear the registered feeds, cancel the
\* replication, or call this.db.close()
CloseEffect(p, kind, a) ==
    /\ feeds' = IF kind = "feeds"
                THEN [f \in DOMAIN feeds |->
                        IF f \in activeChangesFeeds /\ feeds[f].status = "live"
                        THEN [feeds[f] EXCEPT !.status = "cancelled"]
                        ELSE feeds[f]]
                ELSE feeds
    /\ activeChangesFeeds' = IF kind = "feeds" THEN {} ELSE activeChangesFeeds
    /\ syncs' = IF kind = "sync" THEN CancelSync(syncHandler) ELSE syncs
    /\ dbs' = IF kind = "db" THEN CloseCalled(db) ELSE dbs
    /\ IF kind = "db"
       THEN \E ok \in CloseOutcomes(db) :
               parg' = [parg EXCEPT ![p] = [a EXCEPT !.ok = ok, !.h = db]]
       ELSE parg' = [parg EXCEPT ![p] = a]

\* close() is called and runs its first statement
CloseCall(p) ==
    /\ ppc[p] = "idle" /\ Free /\ ops < MaxOps
    /\ ops' = ops + 1
    /\ CloseEffect(p, CloseSteps[1],
                   [NoParg EXCEPT !.via = "close", !.step = 2,
                                  !.pre = (dbs[db].status = "closed")])
    /\ ppc' = [ppc EXCEPT ![p] = "closing"]
    /\ last' = NoLast
    /\ UNCHANGED <<db, syncHandler, tenantId, isInitialized, tornDown>>
    /\ UNCHANGED <<envSet, tenantVars, appVars>>

\* the next statement of close(); after the last one it awaits the close
CloseStep(p) ==
    /\ ppc[p] = "closing"
    /\ CloseEffect(p, CloseSteps[parg[p].step], [parg[p] EXCEPT !.step = @ + 1])
    /\ ppc' = [ppc EXCEPT ![p] = IF parg[p].step = Len(CloseSteps)
                                 THEN "close_await" ELSE "closing"]
    /\ last' = NoLast
    /\ UNCHANGED <<db, syncHandler, tenantId, isInitialized, ops, tornDown>>
    /\ UNCHANGED <<envSet, tenantVars, appVars>>

\* close(), after `await this.db.close()`
CloseReturn(p) ==
    /\ ppc[p] = "close_await" /\ Free
    /\ IF parg[p].ok
       THEN /\ dbs' = CloseResolved(parg[p].h)
            /\ tornDown' = tornDown \cup
                             {f \in DOMAIN feeds : feeds[f].db = parg[p].h}
            /\ Done(p, "close")
       ELSE /\ Throw(p, "close", "closed")
            /\ UNCHANGED <<dbs, tornDown>>
    /\ UNCHANGED <<db, syncs, syncHandler, tenantId, isInitialized, feeds,
                   activeChangesFeeds, ops>>
    /\ UNCHANGED <<envSet, tenantVars, appVars>>

(***************************************************************************)
(* DatabaseService.changes and the feeds it hands out                      *)
(***************************************************************************)
\* changes(): a feed on the current handle, added to the registry
Changes ==
    /\ Free
    /\ Len(feeds) < MaxFeeds
    /\ feeds' = Append(feeds, [db |-> db, status |-> "live"])
    /\ activeChangesFeeds' = activeChangesFeeds \cup {Len(feeds) + 1}
    /\ UNCHANGED <<dbs, db, syncs, syncHandler, tenantId, isInitialized, ppc, parg,
                   ops, tornDown>>
    /\ last' = NoLast
    /\ UNCHANGED <<envSet, tenantVars, appVars>>

\* the consumer cancels its feed (the cleanup of its effect)
FeedCancel(f) ==
    /\ Free
    /\ feeds[f].status = "live"
    /\ feeds' = [feeds EXCEPT ![f].status = "cancelled"]
    /\ last' = NoLast
    /\ UNCHANGED <<dbs, db, syncs, syncHandler, tenantId, isInitialized,
                   activeChangesFeeds, ppc, parg, ops, tornDown>>
    /\ UNCHANGED <<envSet, tenantVars, appVars>>

\* the 'complete' listener of changes(): a cancelled feed completes; a feed that
\* has ended holds no handle any more
FeedComplete(f) ==
    /\ Free
    /\ feeds[f].status = "cancelled"
    /\ feeds' = [feeds EXCEPT ![f] = [db |-> 0, status |-> "completed"]]
    /\ activeChangesFeeds' = activeChangesFeeds \ {f}
    /\ tornDown' = tornDown \ {f}
    /\ UNCHANGED <<dbs, db, syncs, syncHandler, tenantId, isInitialized, ppc, parg,
                   ops>>
    /\ last' = NoLast
    /\ UNCHANGED <<envSet, tenantVars, appVars>>

\* the 'error' listener of changes()
FeedError(f) ==
    /\ Free
    /\ feeds[f].status = "live"
    /\ feeds' = [feeds EXCEPT ![f] = [db |-> 0, status |-> "errored"]]
    /\ activeChangesFeeds' = activeChangesFeeds \ {f}
    /\ tornDown' = tornDown \ {f}
    /\ UNCHANGED <<dbs, db, syncs, syncHandler, tenantId, isInitialized, ppc, parg,
                   ops>>
    /\ last' = NoLast
    /\ UNCHANGED <<envSet, tenantVars, appVars>>

(***************************************************************************)
(* DatabaseService.get / put / find / allDocs / remove                     *)
(***************************************************************************)
\* where ensureInitialized leaves its caller: it returns at once when the flag is
\* set, and awaits initPromise otherwise
EnsurePc(flag) == IF flag THEN "doc_run" ELSE "doc_wait"

\* a document operation is issued: `await this.ensureInitialized()` starts
DocOpBegin(p) ==
    /\ ppc[p] = "idle" /\ Free
    /\ ppc' = [ppc EXCEPT ![p] = EnsurePc(isInitialized)]
    /\ parg' = [parg EXCEPT ![p] = [NoParg EXCEPT !.via = "doc", !.pre = InitInProgress]]
    /\ last' = NoLast
    /\ UNCHANGED <<dbs, db, syncs, syncHandler, tenantId, isInitialized, feeds,
                   activeChangesFeeds, ops, tornDown>>
    /\ UNCHANGED <<envSet, tenantVars, appVars>>

\* ensureInitialized after `await this.initPromise`: it looks at the flag again
DocOpCheck(p) ==
    /\ ppc[p] = "doc_wait" /\ Free
    /\ initPromise = "resolved"
    /\ IF isInitialized
       THEN /\ ppc' = [ppc EXCEPT ![p] = "doc_run"]
            /\ UNCHANGED parg /\ last' = NoLast
       ELSE Throw(p, "doc", "notinit")
    /\ UNCHANGED <<dbs, db, syncs, syncHandler, tenantId, isInitialized, feeds,
                   activeChangesFeeds, ops, tornDown>>
    /\ UNCHANGED <<envSet, tenantVars, appVars>>

\* the operation itself, on whatever this.db is by now
DocOpRun(p) ==
    /\ ppc[p] = "doc_run" /\ Free
    /\ \E ok \in DocOutcomes(db) :
          IF ok
          THEN Done(p, "doc")
          ELSE Throw(p, "doc", "closed")
    /\ UNCHANGED <<dbs, db, syncs, syncHandler, tenantId, isInitialized, feeds,
                   activeChangesFeeds, ops, tornDown>>
    /\ UNCHANGED <<envSet, tenantVars, appVars>>

\* put(doc) at `this.db.put(doc)`: the write is handed to the handle that this.db
\* is at this moment; a handle that is not open may reject it at once
DocOpIssue(p) ==
    /\ ppc[p] = "doc_run" /\ Free
    /\ \E ok \in DocOutcomes(db) :
          parg' = [parg EXCEPT ![p] = [@ EXCEPT !.h = db, !.ok = ok,
                                               !.open = (dbs[db].status = "open")]]
    /\ ppc' = [ppc EXCEPT ![p] = "doc_await"]
    /\ last' = NoLast
    /\ UNCHANGED <<dbs, db, syncs, syncHandler, tenantId, isInitialized, feeds,
                   activeChangesFeeds, ops, tornDown>>
    /\ UNCHANGED <<envSet, tenantVars, appVars>>

\* what becomes of a write that a handle has accepted: it is stored when the handle
\* is still open; when close() has been called on the handle meanwhile it is stored
\* or rejected, whichever comes first
PutOutcomes(h, ok) == IF ok /\ dbs[h].status # "open" THEN {TRUE, FALSE} ELSE {ok}

\* put(doc) after `await this.db.put(doc)`: the result is logged and returned, or
\* the error is logged and thrown again
DocOpSettle(p) ==
    /\ ppc[p] = "doc_await" /\ Free
    /\ \E ok \in PutOutcomes(parg[p].h, parg[p].ok) :
          IF ok
          THEN Done(p, "doc")
          ELSE Throw(p, "doc", "closed")
    /\ UNCHANGED <<dbs, db, syncs, syncHandler, tenantId, isInitialized, feeds,
                   activeChangesFeeds, ops, tornDown>>
    /\ UNCHANGED <<envSet, tenantVars, appVars>>

(***************************************************************************)
(* AuthProvider: createTenant, verifyTenant, login and logout              *)
(***************************************************************************)
\* the one AuthProvider of the page
AuthProcs == {"p1"}

\* the RemoteDbService call a function of the provider makes is the call of its own caller
CallerOf(p) == IF p = "p1" THEN "c1" ELSE "c2"

AuthRemotePcs == {"auth_create", "auth_verify"}

\* the provider has one tenant request in progress at a time, so that the call
\* that completed last is the one the waiting function made
NoTenantRequest == \A q \in Procs : ppc[q] \notin AuthRemotePcs

\* what remoteDb.createTenant / verifyTenantAccess gave the waiting function
Answer == hist[Len(hist)]

\* a function of the provider returns false from its catch or its early return
AuthReturnFalse(p, op, err) ==
    /\ last' = [op |-> op, res |-> "false", err |-> err, pre |-> FALSE]
    /\ ppc' = [ppc EXCEPT ![p] = "idle"]
    /\ parg' = [parg EXCEPT ![p] = NoParg]
    /\ UNCHANGED <<dbs, db, syncs, syncHandler, tenantId, isInitialized, feeds,
                   activeChangesFeeds, ops, tornDown>>

\* the onAuthStateChanged callback with a signed-in user (a session restored by the
\* identity provider): setUser(user).  The verifyTenant it then calls was created
\* by the first render, whose `user` is null, so it throws 'No user logged in',
\* catches it and calls nothing
AuthStateChanged(e) ==
    /\ Free
    /\ user = <<>>
    /\ user' = e
    /\ last' = NoLast
    /\ UNCHANGED <<dbs, db, syncs, syncHandler, tenantId, isInitialized, feeds,
                   activeChangesFeeds, ppc, parg, ops, tornDown>>
    /\ UNCHANGED <<envSet, tenantVars, shareVars, boardVars, docVars>>

\* onAuthStateChanged delivers another user while one is signed in (a sign-in in
\* another tab of the browser): setUser(user)
AuthSwitched(e) ==
    /\ Free
    /\ user # <<>> /\ e # user
    /\ user' = e
    /\ last' = NoLast
    /\ UNCHANGED <<dbs, db, syncs, syncHandler, tenantId, isInitialized, feeds,
                   activeChangesFeeds, ppc, parg, ops, tornDown>>
    /\ UNCHANGED <<envSet, tenantVars, shareVars, boardVars, docVars>>

\* login(email, password) and loginWithGoogle(): after the sign-in has succeeded
\* (onAuthStateChanged sets `user`), db.initialize(email) is called
Login(p, e) ==
    /\ ppc[p] = "idle"
    /\ user' = e
    /\ InitializeCalled(p, e, "login", e)
    /\ UNCHANGED <<envSet, tenantVars, shareVars, boardVars, docVars>>

\* createTenant(tenantEmail), up to `await remoteDb.createTenant(tenantEmail)`
AuthCreateTenant(p, t) ==
    /\ ppc[p] = "idle" /\ Free
    /\ user # <<>>
    /\ NoTenantRequest
    /\ CreateCalled(CallerOf(p), t)
    /\ ppc' = [ppc EXCEPT ![p] = "auth_create"]
    /\ parg' = [parg EXCEPT ![p] = [NoParg EXCEPT !.t = t, !.via = "createTenant",
                                                  !.u = user]]
    /\ last' = NoLast
    /\ UNCHANGED <<dbs, db, syncs, syncHandler, tenantId, isInitialized, feeds,
                   activeChangesFeeds, ops, tornDown>>
    /\ UNCHANGED <<envSet, store, appVars>>

\* createTenant after the await: the value remoteDb.createTenant returned is not
\* looked at, db.initialize(tenantEmail) is called unless it threw
AuthCreateResume(p) ==
    /\ ppc[p] = "auth_create" /\ Free
    /\ rpc[CallerOf(p)] = "idle"
    /\ IF Answer.res = "throw"
       THEN AuthReturnFalse(p, "createTenant", Answer.err)
       ELSE InitializeCalled(p, parg[p].t,
                             IF Answer.res = "true" THEN "created" ELSE "exists",
                             parg[p].u)
    /\ UNCHANGED <<envSet, tenantVars, appVars>>

\* verifyTenant(tenantEmail, userEmail) called with user.email, up to
\* `await remoteDb.verifyTenantAccess(tenantEmail, userEmail)`
AuthVerifyTenant(p, t) ==
    /\ ppc[p] = "idle" /\ Free
    /\ user # <<>>
    /\ NoTenantRequest
    /\ VerifyCalled(CallerOf(p), t, user)
    /\ ppc' = [ppc EXCEPT ![p] = "auth_verify"]
    /\ parg' = [parg EXCEPT ![p] = [NoParg EXCEPT !.t = t, !.via = "verifyTenant",
                                                  !.u = user]]
    /\ last' = NoLast
    /\ UNCHANGED <<dbs, db, syncs, syncHandler, tenantId, isInitialized, feeds,
                   activeChangesFeeds, ops, tornDown>>
    /\ UNCHANGED <<envSet, store, appVars>>

\* tenantVerification.error as verifyTenant sets it: 'User not authorized for this
\* tenant.' when hasAccess is false, and the message of the error it caught
VerificationError(ans) == IF ans.res = "false" THEN "unauthorized" ELSE ans.err

\* verifyTenant after the await: db.initialize(tenantEmail) only when hasAccess
AuthVerifyResume(p) ==
    /\ ppc[p] = "auth_verify" /\ Free
    /\ rpc[CallerOf(p)] = "idle"
    /\ IF Answer.res = "true"
       THEN InitializeCalled(p, parg[p].t, "verified", parg[p].u)
       ELSE AuthReturnFalse(p, "verifyTenant", VerificationError(Answer))
    /\ UNCHANGED <<envSet, tenantVars, appVars>>

\* the service has a session: it is initialized and its replication is not cancelled
SessionActive == isInitialized /\ syncHandler # 0 /\ ~syncs[syncHandler].cancelled

\* logout(): `await signOut(auth); setUser(null)`
Logout ==
    /\ Free
    /\ user # <<>>
    /\ user' = <<>>
    /\ last' = [op |-> "logout", res |-> "ok", err |-> "none", pre |-> SessionActive]
    /\ UNCHANGED <<dbs, db, syncs, syncHandler, tenantId, isInitialized, feeds,
                   activeChangesFeeds, ppc, parg, ops, tornDown>>
    /\ UNCHANGED <<envSet, tenantVars, shareVars, boardVars, docVars>>

(***************************************************************************)
(* The board document and its revisions (DrawingBoard.handleShare)         *)
(***************************************************************************)
\* two browser sessions, each with its own local replica of the tenant database
Sessions == {"A", "B"}

Databases == Sessions \cup {"remote"}

\* what is typed into the share dialog, as a sequence of tokens: blanks and an address
ShareInputs == {<<"alice@x.com">>, <<" ", "bob@x.com", " ">>, <<" ">>}

\* a revision of the board document: the writers of its ancestors and of itself
\* stand for its revision id, and its generation is one more than their number
R1 == [path |-> <<>>, collaborators |-> <<>>]

NoShare == [email |-> <<>>, rev |-> <<>>, collaborators |-> <<>>, res |-> "none"]

RECURSIVE TrimStart(_)
TrimStart(x) == IF x # <<>> /\ Head(x) = " " THEN TrimStart(Tail(x)) ELSE x

RECURSIVE TrimEnd(_)
TrimEnd(x) == IF x # <<>> /\ x[Len(x)] = " "
              THEN TrimEnd(SubSeq(x, 1, Len(x) - 1))
              ELSE x

\* email.trim()
Trim(x) == TrimEnd(TrimStart(x))

\* [...new Set([...collaborators, email])]
AddUnique(seq, x) == IF Includes(seq, x) THEN seq ELSE Append(seq, x)

\* revision a is an ancestor of revision b
IsAncestor(a, b) == Len(a.path) < Len(b.path) /\ SubSeq(b.path, 1, Len(a.path)) = a.path

\* the order of revision ids of one generation (the order of their hashes)
RECURSIVE RevRank(_)
RevRank(path) == IF path = <<>> THEN 0
                 ELSE 3 * RevRank(SubSeq(path, 1, Len(path) - 1))
                      + (IF path[Len(path)] = "A" THEN 1 ELSE 2)

\* the revision db.get returns: the leaf of the highest generation and, among those,
\* of the highest revision id
Winner(S) == CHOOSE r \in S : \A q \in S :
                \/ Len(q.path) < Len(r.path)
                \/ Len(q.path) = Len(r.path) /\ RevRank(q.path) <= RevRank(r.path)

\* a replication that carries the winning revision only
LeavesWinnerOnly(S) == {Winner(S)}

\* the leaves of a set of revisions
Leaves(S) == {r \in S : \A q \in S : ~IsAncestor(r, q)}

\* handleShare(email), up to `await db.get('board:' + boardId)` and its result
ShareGet(s, input) ==
    /\ hpc[s] = "idle"
    /\ Trim(input) # <<>>
    /\ Len(Winner(replicas[s]).path) < MaxShares
    /\ hpc' = [hpc EXCEPT ![s] = "put"]
    /\ harg' = [harg EXCEPT ![s] = [email |-> Trim(input),
                                    rev |-> Winner(replicas[s]).path,
                                    collaborators |-> Winner(replicas[s]).collaborators,
                                    res |-> "none"]]
    /\ UNCHANGED <<user, replicas>>
    /\ UNCHANGED <<envSet, tenantVars, sessVars, boardVars, docVars>>

\* handleShare from `await db.put(updatedBoard)` on: the put is accepted when the
\* revision read is still a leaf of the local replica and rejected (409) otherwise;
\* the rejection is caught and logged
SharePut(s) ==
    /\ hpc[s] = "put"
    /\ IF \E r \in replicas[s] : r.path = harg[s].rev
       THEN /\ replicas' =
                 [replicas EXCEPT ![s] =
                     {r \in @ : r.path # harg[s].rev} \cup
                     {[path |-> Append(harg[s].rev, s),
                       collaborators |-> AddUnique(harg[s].collaborators,
                                                   harg[s].email)]}]
            /\ harg' = [harg EXCEPT ![s].res = "ok"]
       ELSE /\ harg' = [harg EXCEPT ![s].res = "conflict"]
            /\ UNCHANGED replicas
    /\ hpc' = [hpc EXCEPT ![s] = "idle"]
    /\ UNCHANGED user
    /\ UNCHANGED <<envSet, tenantVars, sessVars, boardVars, docVars>>

\* the live replication of a session carries the revisions of one database to
\* the other; every leaf is kept (a conflict is stored, not resolved)
Replicate(src, dst) ==
    /\ src # dst
    /\ "remote" \in {src, dst}
    /\ replicas[dst] # Leaves(replicas[dst] \cup replicas[src])
    /\ replicas' = [replicas EXCEPT ![dst] = Leaves(replicas[dst] \cup replicas[src])]
    /\ UNCHANGED <<user, hpc, harg>>
    /\ UNCHANGED <<envSet, tenantVars, sessVars, boardVars, docVars>>

(***************************************************************************)
(* DrawingBoard: the projection of one board, drawn on by its session      *)
(***************************************************************************)
\* number of ids nanoid() produces
MaxIds == 3

\* the board the component is mounted for (useParams)
boardId == "b1"

\* the principal that created the board
Owner == <<"a", "x.com">>

\* null, for currentShape and for an entry of shapes
NoShape == [id |-> <<>>, content |-> 0, createdAt |-> 0]

\* boardState.board before loadBoard has read the Board document
NoBoard == [createdBy |-> <<>>, name |-> ""]

\* generateSafeId(type): `${type}:${id}` with id = nanoid(); an id is a sequence of
\* the parts a ':' separates
generateSafeId(type, n) == <<type, n>>

\* doc._id.split(':')[1]
SplitId(id) == <<id[2]>>

\* the Shape document handleMouseUp and handleTextSubmit build, and the one another
\* session builds in the same way
ShapeDoc(id, shape) ==
    [_id |-> id, type |-> "shape", boardId |-> boardId, content |-> shape.content,
     createdAt |-> shape.createdAt, deleted |-> FALSE]

\* what remove({_id, _rev}) leaves of a document: its id and the deleted mark
Removed(doc) ==
    [_id |-> doc._id, type |-> "none", boardId |-> "none", content |-> 0,
     createdAt |-> 0, deleted |-> TRUE]

\* the feed's filter: (doc) => doc.boardId === boardId
FeedFilter(doc) == doc.boardId = boardId

\* a write to the local replica reaches the live feed when it passes the filter
Emit(q, doc) == IF cpc.feed = "live" /\ FeedFilter(doc) THEN Append(q, doc) ELSE q

RECURSIVE EmitAll(_, _)
EmitAll(q, S) == IF S = {} THEN q
                 ELSE LET d == CHOOSE x \in S : \A y \in S : x._id[2] <= y._id[2]
                      IN  EmitAll(Emit(q, d), S \ {d})

\* the entry of the projection made of a Shape document, by loadBoard (at = the
\* document's createdAt) and by the feed (at = new Date())
EntryOf(doc, at) == [id |-> SplitId(doc._id), content |-> doc.content, createdAt |-> at]

RECURSIVE InsertByCreatedAt(_, _)
InsertByCreatedAt(seq, x) ==
    IF seq = <<>> \/ seq[Len(seq)].createdAt <= x.createdAt
    THEN Append(seq, x)
    ELSE Append(InsertByCreatedAt(SubSeq(seq, 1, Len(seq) - 1), x), seq[Len(seq)])

\* .sort((a, b) => new Date(a.createdAt).getTime() - new Date(b.createdAt).getTime())
RECURSIVE SortByCreatedAt(_)
SortByCreatedAt(seq) ==
    IF seq = <<>> THEN <<>>
    ELSE InsertByCreatedAt(SortByCreatedAt(SubSeq(seq, 1, Len(seq) - 1)), seq[Len(seq)])

\* the documents db.find returns, in the order of their ids
RECURSIVE FindResult(_)
FindResult(S) == IF S = {} THEN <<>>
                 ELSE LET d == CHOOSE x \in S : \A y \in S : x._id[2] <= y._id[2]
                      IN  <<d>> \o FindResult(S \ {d})

\* shapes.filter(s => s && s.id !== id)
RECURSIVE Others(_, _)
Others(seq, id) ==
    IF seq = <<>> THEN <<>>
    ELSE IF Head(seq) # NoShape /\ Head(seq).id # id
         THEN <<Head(seq)>> \o Others(Tail(seq), id)
         ELSE Others(Tail(seq), id)

\* docs.map(doc => the entry of doc), as loadBoard maps the documents it has found
MapDocs(seq) == [i \in 1..Len(seq) |-> EntryOf(seq[i], seq[i].createdAt)]

\* loadBoard after `await db.get('board:' + boardId)`: the board is stored, or the
\* error is
LoadGet ==
    /\ cpc.load = "get"
    /\ IF bdoc.exists
       THEN /\ boardState' = [boardState EXCEPT !.board = [createdBy |-> bdoc.createdBy,
                                                             name |-> bdoc.name]]
            /\ cpc' = [cpc EXCEPT !.load = "find"]
       ELSE /\ boardState' = [boardState EXCEPT !.error = "Failed to load board"]
            /\ cpc' = [cpc EXCEPT !.load = "done"]
    /\ UNCHANGED <<bdoc, sdocs, drawingState, carg, conts, bq, ids, now>>
    /\ UNCHANGED <<envSet, tenantVars, sessVars, user, shareVars, docVars>>

\* loadBoard at `await db.find({selector: {type: 'shape', boardId}})`: the query reads
\* the replica
LoadFind ==
    /\ cpc.load = "find"
    /\ carg' = [carg EXCEPT !.load = sdocs]
    /\ cpc' = [cpc EXCEPT !.load = "store"]
    /\ UNCHANGED <<bdoc, sdocs, drawingState, boardState, conts, bq, ids, now>>
    /\ UNCHANGED <<envSet, tenantVars, sessVars, user, shareVars, docVars>>

\* loadBoard after the find: setDrawingState(prev => ({...prev, shapes}))
LoadStore ==
    /\ cpc.load = "store"
    /\ drawingState' =
          [drawingState EXCEPT !.shapes =
              MapDocs(SortByCreatedAt(FindResult(carg.load)))]
    /\ carg' = [carg EXCEPT !.load = {}]
    /\ cpc' = [cpc EXCEPT !.load = "done"]
    /\ UNCHANGED <<bdoc, sdocs, boardState, conts, bq, ids, now>>
    /\ UNCHANGED <<envSet, tenantVars, sessVars, user, shareVars, docVars>>

\* db.changes({since: 'now', live: true, ...}) has found where 'now' is: the feed
\* delivers what is written from here on
FeedLive ==
    /\ cpc.feed = "starting"
    /\ cpc' = [cpc EXCEPT !.feed = "live"]
    /\ UNCHANGED <<bdoc, sdocs, drawingState, boardState, carg, conts, bq, ids, now>>
    /\ UNCHANGED <<envSet, tenantVars, sessVars, user, shareVars, docVars>>

\* the entry of the cursor map made of a Cursor document: its user and its position
CursorOf(doc) == [userId |-> doc.userId, x |-> doc.x]

\* {...prev.cursors, [userId]: {...}}
UpsertCursor(cursors, doc) ==
    [k \in DOMAIN cursors \cup {doc.userId} |->
        IF k = doc.userId THEN CursorOf(doc) ELSE cursors[k]]

\* handleCursorCleanup(userId): the map without the entry of userId
handleCursorCleanup(cursors, userId) == [k \in DOMAIN cursors \ {userId} |-> cursors[k]]

\* changesFeed.on('change'): case 'shape', case 'cursor', and nothing for a document
\* of any other type
FeedChange ==
    /\ cpc.feed = "live"
    /\ bq # <<>>
    /\ LET doc == Head(bq)
       IN  IF doc.type = "shape"
           THEN /\ IF doc.deleted
                   THEN /\ drawingState' =
                             [drawingState EXCEPT !.shapes = Others(@, SplitId(doc._id))]
                        /\ UNCHANGED now
                   ELSE /\ drawingState' =
                             [drawingState EXCEPT !.shapes =
                                 SortByCreatedAt(Append(Others(@, SplitId(doc._id)),
                                                        EntryOf(doc, now)))]
                        /\ now' = now + 1
                /\ UNCHANGED boardState
           ELSE IF doc.type = "cursor" /\ doc.userId # user
           THEN /\ boardState' =
                     [boardState EXCEPT !.cursors =
                         IF doc.deleted THEN handleCursorCleanup(@, doc.userId)
                         ELSE UpsertCursor(@, doc)]
                /\ UNCHANGED <<drawingState, now>>
           ELSE UNCHANGED <<drawingState, boardState, now>>
    /\ bq' = Tail(bq)
    /\ UNCHANGED <<bdoc, sdocs, cpc, carg, conts, ids>>
    /\ UNCHANGED <<envSet, tenantVars, sessVars, user, shareVars, docVars>>

\* handleMouseDown with a drawing tool: a new currentShape
HandleMouseDown ==
    /\ ids < MaxIds
    /\ drawingState' =
          [drawingState EXCEPT !.currentShape =
              [id |-> generateSafeId("shape", ids + 1), content |-> ids + 1,
               createdAt |-> now]]
    /\ ids' = ids + 1
    /\ now' = now + 1
    /\ UNCHANGED <<bdoc, sdocs, boardState, cpc, carg, conts, bq>>
    /\ UNCHANGED <<envSet, tenantVars, sessVars, user, shareVars, docVars>>

\* handleMouseUp up to the end of `await db.put(shapeDoc)`: the document is written
\* under an id of its own; a failed put is logged
HandleMouseUp ==
    /\ drawingState.currentShape # NoShape
    /\ ids < MaxIds
    /\ ids' = ids + 1
    /\ \E ok \in DocOutcomes(db) :
          IF ok
          THEN LET doc == ShapeDoc(generateSafeId("shape", ids + 1),
                                   drawingState.currentShape)
               IN  /\ sdocs' = sdocs \cup {doc}
                   /\ bq' = Emit(bq, doc)
                   /\ conts' = Append(conts, [kind |-> "up", shape |-> NoShape])
          ELSE UNCHANGED <<sdocs, bq, conts>>
    /\ UNCHANGED <<bdoc, drawingState, boardState, cpc, carg, now>>
    /\ UNCHANGED <<envSet, tenantVars, sessVars, user, shareVars, docVars>>

\* handleTextSubmit up to the end of `await db.put(shapeDoc)`: the document has the
\* id of the new shape
HandleTextSubmit ==
    /\ ids < MaxIds
    /\ ids' = ids + 1
    /\ now' = IF drawingState.currentShape # NoShape THEN now ELSE now + 1
    /\ LET newShape == [id |-> generateSafeId("shape", ids + 1), content |-> ids + 1,
                        createdAt |-> IF drawingState.currentShape # NoShape
                                      THEN drawingState.currentShape.createdAt
                                      ELSE now]
       IN  \E ok \in DocOutcomes(db) :
              IF ok
              THEN /\ sdocs' = sdocs \cup {ShapeDoc(newShape.id, newShape)}
                   /\ bq' = Emit(bq, ShapeDoc(newShape.id, newShape))
                   /\ conts' = Append(conts, [kind |-> "text", shape |-> newShape])
              ELSE UNCHANGED <<sdocs, bq, conts>>
    /\ UNCHANGED <<bdoc, drawingState, boardState, cpc, carg>>
    /\ UNCHANGED <<envSet, tenantVars, sessVars, user, shareVars, docVars>>

\* handleMouseUp and handleTextSubmit after the put: the shape is added to shapes,
\* prev.currentShape by the one and newShape by the other
PutContinue ==
    /\ conts # <<>>
    /\ drawingState' =
          IF Head(conts).kind = "up"
          THEN [shapes |-> Append(drawingState.shapes, drawingState.currentShape),
                currentShape |-> NoShape]
          ELSE [drawingState EXCEPT !.shapes = Append(@, Head(conts).shape)]
    /\ conts' = Tail(conts)
    /\ UNCHANGED <<bdoc, sdocs, boardState, cpc, carg, bq, ids, now>>
    /\ UNCHANGED <<envSet, tenantVars, sessVars, user, shareVars, docVars>>

\* the replication stores a Shape document another session has written for the board
ReplicatedShape ==
    /\ ids < MaxIds
    /\ ids' = ids + 1
    /\ \E at \in {0, now} :
          LET doc == ShapeDoc(generateSafeId("shape", ids + 1),
                              [content |-> ids + 1, createdAt |-> at])
          IN  /\ sdocs' = sdocs \cup {doc}
              /\ bq' = Emit(bq, doc)
    /\ UNCHANGED <<bdoc, drawingState, boardState, cpc, carg, conts, now>>
    /\ UNCHANGED <<envSet, tenantVars, sessVars, user, shareVars, docVars>>

\* a Shape document of the board is deleted in the local replica, by
\* db.remove({_id, _rev}) here or by the replication of such a remove done elsewhere:
\* the deletion is a change of the replica as any other write is
ShapeRemoved ==
    /\ \E d \in sdocs :
          /\ sdocs' = sdocs \ {d}
          /\ bq' = Emit(bq, Removed(d))
    /\ UNCHANGED <<bdoc, drawingState, boardState, cpc, carg, conts, ids, now>>
    /\ UNCHANGED <<envSet, tenantVars, sessVars, user, shareVars, docVars>>

\* handleDeleteBoard's guard: the board is loaded and the signed-in user created it
MayDeleteAnyone(b, u) == b # NoBoard /\ u # <<>>

MayDelete(b, u) == b # NoBoard /\ u # <<>> /\ b.createdBy = u

\* handleDeleteBoard is called: it returns at once for anybody but the owner
DeleteCall ==
    /\ cpc.del = "idle"
    /\ cpc' = [cpc EXCEPT !.del = IF MayDelete(boardState.board, user)
                                  THEN "get" ELSE "refused"]
    /\ UNCHANGED <<bdoc, sdocs, drawingState, boardState, carg, conts, bq, ids, now>>
    /\ UNCHANGED <<envSet, tenantVars, sessVars, user, shareVars, docVars>>

\* the catch of handleDeleteBoard
DeleteFailed ==
    /\ boardState' = [boardState EXCEPT !.error = "Failed to delete board"]
    /\ cpc' = [cpc EXCEPT !.del = "failed"]

\* handleDeleteBoard, `await db.get('board:' + boardId)` and
\* `await db.remove({_id, _rev})`: the Board document is removed
DeleteBoardDoc ==
    /\ cpc.del = "get"
    /\ \E ok \in DocOutcomes(db) :
          IF ok /\ bdoc.exists
          THEN /\ bdoc' = [bdoc EXCEPT !.exists = FALSE]
               /\ cpc' = [cpc EXCEPT !.del = "find"]
               /\ UNCHANGED boardState
          ELSE /\ DeleteFailed
               /\ UNCHANGED bdoc
    /\ UNCHANGED <<sdocs, drawingState, carg, conts, bq, ids, now>>
    /\ UNCHANGED <<envSet, tenantVars, sessVars, user, shareVars, docVars>>

\* handleDeleteBoard at `await db.find({selector: {type: 'shape', boardId}})`
DeleteFind ==
    /\ cpc.del = "find"
    /\ \E ok \in DocOutcomes(db) :
          IF ok
          THEN /\ carg' = [carg EXCEPT !.del = sdocs]
               /\ cpc' = [cpc EXCEPT !.del = "shapes"]
               /\ UNCHANGED boardState
          ELSE /\ DeleteFailed
               /\ UNCHANGED carg
    /\ UNCHANGED <<bdoc, sdocs, drawingState, conts, bq, ids, now>>
    /\ UNCHANGED <<envSet, tenantVars, sessVars, user, shareVars, docVars>>

\* handleDeleteBoard at `await Promise.all(deletePromises)`: the shapes found are
\* removed, and navigate('/') follows
DeleteShapes ==
    /\ cpc.del = "shapes"
    /\ \E ok \in DocOutcomes(db) :
          IF ok
          THEN /\ sdocs' = sdocs \ carg.del
               /\ bq' = EmitAll(bq, {Removed(d) : d \in carg.del \cap sdocs})
               /\ cpc' = [cpc EXCEPT !.del = "done"]
               /\ UNCHANGED boardState
          ELSE /\ DeleteFailed
               /\ UNCHANGED <<sdocs, bq>>
    /\ carg' = [carg EXCEPT !.del = {}]
    /\ UNCHANGED <<bdoc, drawingState, conts, ids, now>>
    /\ UNCHANGED <<envSet, tenantVars, sessVars, user, shareVars, docVars>>

(***************************************************************************)
(* Documents of the local replica: createBoard, the rewrites of a Board    *)
(* document and createDatabaseOperations                                   *)
(***************************************************************************)
\* number of revisions a document gets
MaxRevs == 2

\* number of documents written to the replica
MaxDocs == 1

\* {...a, ...b}
Spread(a, b) == [k \in DOMAIN a \cup DOMAIN b |-> IF k \in DOMAIN b THEN b[k] ELSE a[k]]

\* a document without the revision the store gave it
Strip(doc) == [k \in DOMAIN doc \ {"_rev"} |-> doc[k]]

NoKarg == [kind |-> "none", doc |-> <<>>, arg |-> <<>>]

NoKlast == [op |-> "none", id |-> <<>>, res |-> "none", out |-> <<>>]

\* the document stored under an id, as a set of at most one
Stored(id) == {d \in kv : d._id = id}

\* this.db.put(doc): accepted for a new id, and for a stored one when doc._rev is
\* the stored revision; rejected (409) otherwise
PutAccepted(doc) ==
    IF Stored(doc._id) = {} THEN TRUE
    ELSE "_rev" \in DOMAIN doc /\ \E d \in Stored(doc._id) : d._rev = doc._rev

\* the replica after an accepted put: the document with the next revision
PutStore(doc) ==
    (kv \ Stored(doc._id)) \cup
        {Spread(doc, [_rev |-> IF "_rev" \in DOMAIN doc THEN doc._rev + 1 ELSE 1])}

\* a put of doc, which the caller was given as `input`, and its outcome
PutDoc(op, doc, input) ==
    IF PutAccepted(doc)
    THEN /\ kv' = PutStore(doc)
         /\ written' = [i \in DOMAIN written \cup {doc._id} |->
                           IF i = doc._id THEN input ELSE written[i]]
         /\ klast' = [op |-> op, id |-> doc._id, res |-> "ok", out |-> <<>>]
    ELSE /\ klast' = [op |-> op, id |-> doc._id, res |-> "conflict", out |-> <<>>]
         /\ UNCHANGED <<kv, written>>

\* the Board document createBoard writes
NewBoard(n, u) ==
    [_id |-> <<"board", n>>, type |-> "board", name |-> "n", createdBy |-> u,
     collaborators |-> <<>>, isPublic |-> FALSE, lastModifiedBy |-> u]

\* BoardList.createBoard
CreateBoard ==
    /\ kpc = "idle"
    /\ user # <<>>
    /\ ids < MaxIds /\ Cardinality(kv) < MaxDocs
    /\ ids' = ids + 1
    /\ PutDoc("put", NewBoard(ids + 1, user),
              [via |-> "put", input |-> NewBoard(ids + 1, user)])
    /\ UNCHANGED <<kpc, karg, opsTenant>>
    /\ UNCHANGED <<bdoc, sdocs, drawingState, boardState, cpc, carg, conts, bq, now>>
    /\ UNCHANGED <<envSet, tenantVars, sessVars, user, shareVars>>

\* this.db.get(id), for the caller `op`: the stored document, or 404
Get(op, id) ==
    /\ kpc = "idle"
    /\ klast' = IF Stored(id) = {}
                THEN [op |-> op, id |-> id, res |-> "missing", out |-> <<>>]
                ELSE [op |-> op, id |-> id, res |-> "ok",
                      out |-> CHOOSE d \in Stored(id) : TRUE]
    /\ UNCHANGED <<kv, kpc, karg, written, opsTenant>>
    /\ UNCHANGED <<envSet, tenantVars, sessVars, user, shareVars, boardVars>>

\* db.get(id) of DatabaseService
DbGet(id) == Get("get", id)

\* read(id) of createDatabaseOperations
HandlerRead(id) == Get("read", id)

\* what is passed to update() of createDatabaseOperations
Updates == {[isPublic |-> TRUE], [name |-> "m"], [createdBy |-> <<"b", "x.com">>]}

\* the three rewrites of a document and their arguments: handleShare(email),
\* shareBoard(board) with the board's isPublic as the list shows it, update(id, updates)
Rewrites == ({"share"} \X {<<"alice@x.com">>}) \cup ({"toggle"} \X BOOLEAN)
            \cup ({"update"} \X Updates)

\* the document a rewrite puts
Rewritten(kind, doc, arg) ==
    IF kind = "share"
    THEN Spread(doc, [collaborators |-> AddUnique(doc.collaborators, Trim(arg))])
    ELSE IF kind = "toggle"
    THEN Spread(doc, [isPublic |-> ~arg])
    ELSE Spread(doc, arg)

\* [...doc.collaborators, ...] throws when the document has no collaborators
CanRewrite(kind, doc) == kind = "share" => "collaborators" \in DOMAIN doc

\* handleShare, shareBoard and update up to the result of `await db.get(id)`; what
\* is thrown is caught and logged
RewriteGet(id, kind, arg) ==
    /\ kpc = "idle"
    /\ \A d \in Stored(id) : d._rev < MaxRevs
    /\ IF Stored(id) = {}
       THEN /\ klast' = [op |-> kind, id |-> id, res |-> "missing", out |-> <<>>]
            /\ UNCHANGED <<kpc, karg>>
       ELSE IF ~CanRewrite(kind, CHOOSE d \in Stored(id) : TRUE)
       THEN /\ klast' = [op |-> kind, id |-> id, res |-> "throw", out |-> <<>>]
            /\ UNCHANGED <<kpc, karg>>
       ELSE /\ karg' = [kind |-> kind, doc |-> CHOOSE d \in Stored(id) : TRUE,
                        arg |-> arg]
            /\ kpc' = "put"
            /\ klast' = NoKlast
    /\ UNCHANGED <<kv, written, opsTenant>>
    /\ UNCHANGED <<envSet, tenantVars, sessVars, user, shareVars, boardVars>>

\* handleShare, shareBoard and update from `await db.put(...)` on
RewritePut ==
    /\ kpc = "put"
    /\ LET doc == Rewritten(karg.kind, karg.doc, karg.arg)
       IN  PutDoc(karg.kind, doc, [via |-> "put", input |-> doc])
    /\ kpc' = "idle"
    /\ karg' = NoKarg
    /\ UNCHANGED opsTenant
    /\ UNCHANGED <<envSet, tenantVars, sessVars, user, shareVars, boardVars>>

\* the collection the operations object is made for
collectionName == "boards"

\* what is passed to create() of createDatabaseOperations: a Board, and a Board
\* document that has an id and a tenant already
Items ==
    {[type |-> "board", name |-> "n", createdBy |-> Owner, isPublic |-> FALSE],
     [type |-> "board", name |-> "n", createdBy |-> Owner, isPublic |-> FALSE,
      _id |-> <<"board", 0>>, tenantId |-> <<"t0">>]}

\* create() with the item spread last
CreateDocItemLast(item, n, t) ==
    Spread([_id |-> <<t, collectionName, n>>, type |-> collectionName, tenantId |-> t],
           item)

\* {...item, _id: `${tenantId}:${collectionName}:${nanoid()}`, type, tenantId}
CreateDoc(item, n, t) ==
    Spread(item,
           [_id |-> <<t, collectionName, n>>, type |-> collectionName, tenantId |-> t])

\* initializeTenant(): user.email.split('@')[0]
InitializeTenant(u) == TenantIdOf(u)

\* create(item) of createDatabaseOperations: `if (!tenantId) await initializeTenant()`,
\* which throws without a signed-in user, then the put
HandlerCreate(item) ==
    /\ kpc = "idle"
    /\ ids < MaxIds /\ Cardinality(kv) < MaxDocs
    /\ IF opsTenant = <<>> /\ user = <<>>
       THEN /\ klast' = [op |-> "create", id |-> <<>>, res |-> "unauthenticated",
                         out |-> <<>>]
            /\ UNCHANGED <<kv, written, ids, opsTenant>>
       ELSE /\ opsTenant' = IF opsTenant = <<>> THEN InitializeTenant(user)
                            ELSE opsTenant
            /\ ids' = ids + 1
            /\ PutDoc("create", CreateDoc(item, ids + 1, opsTenant'),
                      [via |-> "create", input |-> item, t |-> opsTenant'])
    /\ UNCHANGED <<kpc, karg>>
    /\ UNCHANGED <<bdoc, sdocs, drawingState, boardState, cpc, carg, conts, bq, now>>
    /\ UNCHANGED <<envSet, tenantVars, sessVars, user, shareVars>>

\* the prefix `${tenantId}:${collectionName}:` of the keys create() makes
KeyPrefix(t) == <<t, collectionName>>

\* '\ufff0', which sorts after every character of an id
Top == "ufff0"

\* p is the beginning of the key k
IsPrefix(p, k) == Len(p) <= Len(k) /\ SubSeq(k, 1, Len(p)) = p

\* the keys from startkey to endkey, for a range that ends at its start followed
\* by '\ufff0': the keys that begin as the start does
InRange(k, startkey, endkey) == endkey = Append(startkey, Top) /\ IsPrefix(startkey, k)

\* what is passed to list(): nothing, and a range of the caller's own
ListOptions == {<<>>, [startkey |-> <<>>, endkey |-> <<Top>>]}

\* what is passed to find(): no condition, and conditions on tenantId and type
Queries ==
    {[selector |-> <<>>],
     [selector |-> [tenantId |-> <<"b">>, type |-> "shapes"]],
     [selector |-> [name |-> "n"]]}

\* db.find: the documents that have every field of the selector with its value
Matches(selector) ==
    {d \in kv : \A f \in DOMAIN selector : f \in DOMAIN d /\ d[f] = selector[f]}

\* `if (!tenantId) await initializeTenant()` of create, list and find cannot go on:
\* nobody is signed in and no tenant id is kept
Unauthenticated == opsTenant = <<>> /\ user = <<>>

\* the tenant id create, list and find go on with
TenantNow == IF opsTenant = <<>> THEN InitializeTenant(user) ELSE opsTenant

\* list(options) of createDatabaseOperations
HandlerList(options) ==
    /\ kpc = "idle"
    /\ IF Unauthenticated
       THEN /\ klast' = [op |-> "list", id |-> <<>>, res |-> "unauthenticated",
                         out |-> <<>>]
            /\ UNCHANGED opsTenant
       ELSE /\ opsTenant' = TenantNow
            /\ LET range == Spread([startkey |-> KeyPrefix(TenantNow),
                                    endkey |-> Append(KeyPrefix(TenantNow), Top)],
                                   options)
               IN  klast' = [op |-> "list", id |-> KeyPrefix(TenantNow), res |-> "ok",
                             out |-> {d \in kv :
                                        InRange(d._id, range.startkey, range.endkey)}]
    /\ UNCHANGED <<kv, kpc, karg, written>>
    /\ UNCHANGED <<envSet, tenantVars, sessVars, user, shareVars, boardVars>>

\* find(query) of createDatabaseOperations
HandlerFind(query) ==
    /\ kpc = "idle"
    /\ IF Unauthenticated
       THEN /\ klast' = [op |-> "find", id |-> <<>>, res |-> "unauthenticated",
                         out |-> <<>>]
            /\ UNCHANGED opsTenant
       ELSE /\ opsTenant' = TenantNow
            /\ LET enhancedQuery ==
                       Spread(query,
                              [selector |-> Spread(query.selector,
                                                   [tenantId |-> TenantNow,
                                                    type |-> collectionName])])
               IN  klast' = [op |-> "find", id |-> KeyPrefix(TenantNow), res |-> "ok",
                             out |-> Matches(enhancedQuery.selector)]
    /\ UNCHANGED <<kv, kpc, karg, written>>
    /\ UNCHANGED <<envSet, tenantVars, sessVars, user, shareVars, boardVars>>

\* the replication stores a document of the tenant database that another collection,
\* or another tenant sharing the database, has created
OtherDocs ==
    {[_id |-> <<<<"a">>, "shapes", 0>>, type |-> "shapes", tenantId |-> <<"a">>,
      name |-> "n", _rev |-> 1],
     [_id |-> <<<<"b">>, "boards", 0>>, type |-> "boards", tenantId |-> <<"b">>,
      name |-> "n", _rev |-> 1]}

ReplicatedDoc(doc) ==
    /\ doc \notin kv
    /\ kv' = kv \cup {doc}
    /\ UNCHANGED <<kpc, karg, klast, written, opsTenant>>
    /\ UNCHANGED <<envSet, tenantVars, sessVars, user, shareVars, boardVars>>

(***************************************************************************)
(* Cursors and the Board document, as the replica and the live feed of the *)
(* mounted board see them                                                  *)
(***************************************************************************)
\* the board the component is mounted for, and another board of the tenant
Boards == {boardId, "b2"}

\* where a pointer is
Positions == {1, 2}

\* how far the clock of the model runs
MaxTime == 3

\* CURSOR_TTL = 30000, in units of 30 seconds
CURSOR_TTL == 1

\* `cursor:${user.uid}`
CursorId(u) == <<"cursor", u>>

\* the Cursor document updateCursor builds
CursorDoc(u, b, x, at) ==
    [_id |-> CursorId(u), type |-> "cursor", boardId |-> b, userId |-> u, x |-> x,
     lastUpdated |-> at, deleted |-> FALSE]

\* cursorDoc._rev = existing._rev, when db.get has found the document
WithRevOf(doc) ==
    IF Stored(doc._id) = {} THEN doc
    ELSE Spread(doc, [_rev |-> (CHOOSE d \in Stored(doc._id) : TRUE)._rev])

\* updateCursor(x, y) of the component mounted for board b, up to the result of
\* `await db.get(cursorDoc._id)`
UpdateCursorGet(b, x) ==
    /\ kpc = "idle"
    /\ user # <<>>
    /\ \A d \in Stored(CursorId(user)) : d._rev < MaxRevs
    /\ karg' = [kind |-> "cursor", doc |-> WithRevOf(CursorDoc(user, b, x, now)),
                arg |-> <<>>]
    /\ kpc' = "cursor"
    /\ klast' = NoKlast
    /\ UNCHANGED <<kv, written, opsTenant>>
    /\ UNCHANGED <<envSet, tenantVars, sessVars, user, shareVars, boardVars>>

\* updateCursor from `await db.put(cursorDoc)` on; a rejected put is logged
UpdateCursorPut ==
    /\ kpc = "cursor"
    /\ PutDoc("updateCursor", karg.doc, [via |-> "put", input |-> karg.doc])
    /\ bq' = IF PutAccepted(karg.doc) THEN Emit(bq, karg.doc) ELSE bq
    /\ kpc' = "idle"
    /\ karg' = NoKarg
    /\ UNCHANGED opsTenant
    /\ UNCHANGED <<bdoc, sdocs, drawingState, boardState, cpc, carg, conts, ids, now>>
    /\ UNCHANGED <<envSet, tenantVars, sessVars, user, shareVars>>

\* the replication stores the Cursor document user u has written on another device
ReplicatedCursor(u, b, x) ==
    /\ \A d \in Stored(CursorId(u)) : d._rev < MaxRevs
    /\ LET doc == CursorDoc(u, b, x, now)
       IN  /\ kv' = PutStore(WithRevOf(doc))
           /\ bq' = Emit(bq, doc)
    /\ UNCHANGED <<kpc, karg, klast, written, opsTenant>>
    /\ UNCHANGED <<bdoc, sdocs, drawingState, boardState, cpc, carg, conts, ids, now>>
    /\ UNCHANGED <<envSet, tenantVars, sessVars, user, shareVars>>

\* time passes: Date.now() grows
Tick ==
    /\ now < MaxTime
    /\ now' = now + 1
    /\ UNCHANGED <<bdoc, sdocs, drawingState, boardState, cpc, carg, conts, bq, ids>>
    /\ UNCHANGED <<envSet, tenantVars, sessVars, user, shareVars, docVars>>

\* Object.values(boardState.cursors): the cursors the component renders
RenderedCursors == {boardState.cursors[k] : k \in DOMAIN boardState.cursors}

\* the Board document as a change of the replica: it has no boardId
BoardChange(b) ==
    [_id |-> <<"board", boardId>>, type |-> "board", boardId |-> "none",
     name |-> b.name, createdBy |-> b.createdBy, deleted |-> FALSE]

\* a new revision of the Board document reaches the local replica: update(id, {name})
\* here, or the replication of a rewrite done elsewhere
BoardChanged ==
    /\ bdoc.exists /\ bdoc.name # "m"
    /\ bdoc' = [bdoc EXCEPT !.name = "m"]
    /\ bq' = Emit(bq, BoardChange(bdoc'))
    /\ UNCHANGED <<sdocs, drawingState, boardState, cpc, carg, conts, ids, now>>
    /\ UNCHANGED <<envSet, tenantVars, sessVars, user, shareVars, docVars>>

\* the replication stores the deletion of the Board document, removed elsewhere by
\* db.remove({_id, _rev})
BoardRemoved ==
    /\ bdoc.exists
    /\ bdoc' = [bdoc EXCEPT !.exists = FALSE]
    /\ bq' = Emit(bq, Removed(BoardChange(bdoc)))
    /\ UNCHANGED <<sdocs, drawingState, boardState, cpc, carg, conts, ids, now>>
    /\ UNCHANGED <<envSet, tenantVars, sessVars, user, shareVars, docVars>>

(***************************************************************************)
(* Specifications                                                          *)
(***************************************************************************)
Init ==
    /\ envSet \in BOOLEAN
    /\ store = [id \in DocIds |-> NoDoc]
    /\ rpc = [c \in Callers |-> "idle"]
    /\ rarg = [c \in Callers |-> NoArg]
    /\ hist = <<>>
    /\ dbs = <<TempDb>>
    /\ db = 1
    /\ syncs = <<>>
    /\ syncHandler = 0
    /\ tenantId = <<>>
    /\ isInitialized = FALSE
    /\ feeds = <<>>
    /\ activeChangesFeeds = {}
    /\ ppc = [p \in Procs |-> "idle"]
    /\ parg = [p \in Procs |-> NoParg]
    /\ last = NoLast
    /\ ops = 0
    /\ tornDown = {}
    /\ user = <<>>
    /\ replicas = [d \in Databases |-> {R1}]
    /\ hpc = [s \in Sessions |-> "idle"]
    /\ harg = [s \in Sessions |-> NoShare]
    /\ bdoc = [exists |-> TRUE, createdBy |-> Owner, name |-> "n"]
    /\ sdocs = {}
    /\ drawingState = [shapes |-> <<>>, currentShape |-> NoShape]
    /\ boardState = [board |-> NoBoard, error |-> "none", cursors |-> <<>>]
    /\ cpc = [load |-> "get", feed |-> "starting", del |-> "idle"]
    /\ carg = [load |-> {}, del |-> {}]
    /\ conts = <<>>
    /\ bq = <<>>
    /\ ids = 0
    /\ now = 1
    /\ kv = {}
    /\ kpc = "idle"
    /\ karg = NoKarg
    /\ klast = NoKlast
    /\ written = <<>>
    /\ opsTenant = <<>>

\* the tenant access service under any number of concurrent callers
NextTenant ==
    \/ \E c \in Callers, t \in Emails, p \in Emails : VerifyBegin(c, t, p)
    \/ \E c \in Callers : VerifyGet(c)
    \/ \E c \in Callers, t \in Emails : CreateBegin(c, t)
    \/ \E c \in Callers : CreateGet(c)
    \/ \E c \in Callers : CreatePut(c)
    \/ \E c \in Callers, t \in Emails, p \in Emails : AddBegin(c, t, p)
    \/ \E c \in Callers : AddGet(c)
    \/ \E c \in Callers : AddPut(c)

SpecTenant == Init /\ [][NextTenant]_vars

\* the Tenant documents under concurrent creation and sharing
NextMembers ==
    \/ \E c \in Callers, t \in Emails : CreateBegin(c, t)
    \/ \E c \in Callers : CreateGet(c)
    \/ \E c \in Callers : CreatePut(c)
    \/ \E c \in Callers, t \in Emails, p \in Principals : AddBegin(c, t, p)
    \/ \E c \in Callers : AddGet(c)
    \/ \E c \in Callers : AddPut(c)

SpecMembers == Init /\ [][NextMembers]_vars

\* sessions and their change feeds: concurrent callers of initialize, close and
\* changes, and the consumers of the feeds
NextSession ==
    \/ \E p \in Procs, t \in Emails : InitBegin(p, t)
    \/ \E p \in Procs : InitOpen(p)
    \/ \E p \in Procs : SyncRemote(p)
    \/ \E p \in Procs : SyncOpen(p)
    \/ \E p \in Procs : InitFinish(p)
    \/ \E p \in Procs : CloseCall(p)
    \/ \E p \in Procs : CloseStep(p)
    \/ \E p \in Procs : CloseReturn(p)
    \/ Changes
    \/ \E f \in DOMAIN feeds : FeedCancel(f)
    \/ \E f \in DOMAIN feeds : FeedComplete(f)
    \/ \E f \in DOMAIN feeds : FeedError(f)

SpecSession == Init /\ [][NextSession]_vars

\* the life cycle of the service: concurrent callers of initialize, syncWithRemote,
\* close and the document operations
NextLifecycle ==
    \/ \E p \in Procs, t \in Emails : InitBegin(p, t)
    \/ \E p \in Procs : InitOpen(p)
    \/ \E p \in Procs, t \in Emails : SyncBegin(p, t)
    \/ \E p \in Procs : SyncRemote(p)
    \/ \E p \in Procs : SyncOpen(p)
    \/ \E p \in Procs : InitFinish(p)
    \/ \E p \in Procs : CloseCall(p)
    \/ \E p \in Procs : CloseStep(p)
    \/ \E p \in Procs : CloseReturn(p)
    \/ \E p \in Procs : DocOpBegin(p)
    \/ \E p \in Procs : DocOpCheck(p)
    \/ \E p \in Procs : DocOpRun(p)

SpecLifecycle == Init /\ [][NextLifecycle]_vars

\* the life cycle of the service with errors on its replication streams
NextReplication ==
    \/ \E p \in Procs, t \in Emails : InitBegin(p, t)
    \/ \E p \in Procs : InitOpen(p)
    \/ \E p \in Procs : SyncRemote(p)
    \/ \E p \in Procs : SyncOpen(p)
    \/ \E p \in Procs : InitFinish(p)
    \/ \E p \in Procs : CloseCall(p)
    \/ \E p \in Procs : CloseStep(p)
    \/ \E p \in Procs : CloseReturn(p)
    \/ \E p \in Procs : DocOpBegin(p)
    \/ \E p \in Procs : DocOpCheck(p)
    \/ \E p \in Procs : DocOpRun(p)
    \/ \E s \in DOMAIN syncs : SyncError(s)
    \/ \E s \in DOMAIN syncs : SyncRetry(s)

SpecReplication == Init /\ [][NextReplication]_vars

\* one mounted DrawingBoard: its load, its feed, the gestures of its user and the
\* shapes of other sessions
NextBoard ==
    \/ LoadGet
    \/ LoadFind
    \/ LoadStore
    \/ FeedLive
    \/ FeedChange
    \/ HandleMouseDown
    \/ HandleMouseUp
    \/ HandleTextSubmit
    \/ PutContinue
    \/ ReplicatedShape

SpecBoard == Init /\ [][NextBoard]_vars

\* the board with its delete button, for either of two signed-in users, while the
\* replication brings in the shapes of other sessions
NextDelete ==
    \/ \E e \in Emails : AuthStateChanged(e)
    \/ LoadGet
    \/ LoadFind
    \/ LoadStore
    \/ ReplicatedShape
    \/ DeleteCall
    \/ DeleteBoardDoc
    \/ DeleteFind
    \/ DeleteShapes

SpecDelete == Init /\ [][NextDelete]_vars

\* the board as its load and its live feed show it, while shapes are stored and
\* deleted in the local replica
NextFeed ==
    \/ LoadGet
    \/ LoadFind
    \/ LoadStore
    \/ FeedLive
    \/ FeedChange
    \/ ReplicatedShape
    \/ ShapeRemoved

SpecFeed == Init /\ [][NextFeed]_vars

\* ProtectedRoute: the board is mounted only while a user is signed in
Mounted == user # <<>>

\* the mounted board, its load and its feed, while cursors and revisions of the Board
\* document reach the local replica and the signed-in user changes
NextProjection ==
    \/ \E e \in Emails : AuthStateChanged(e)
    \/ \E e \in Emails : AuthSwitched(e)
    \/ Mounted /\ LoadGet
    \/ Mounted /\ FeedLive
    \/ Mounted /\ FeedChange
    \/ \E u \in Emails, x \in Positions : ReplicatedCursor(u, boardId, x)
    \/ Tick
    \/ BoardChanged
    \/ BoardRemoved

SpecProjection == Init /\ [][NextProjection]_vars

\* the cursor of the signed-in user, updated from the boards they have open, and
\* the cursors replicated from other devices
NextCursor ==
    \/ \E e \in Emails : AuthStateChanged(e)
    \/ \E b \in Boards, x \in Positions : UpdateCursorGet(b, x)
    \/ UpdateCursorPut
    \/ \E u \in Emails, b \in Boards, x \in Positions : ReplicatedCursor(u, b, x)
    \/ Tick

SpecCursor == Init /\ [][NextCursor]_vars

\* one operations object of createDatabaseOperations, used by whoever is signed in
NextHandler ==
    \/ \E e \in Emails : AuthStateChanged(e)
    \/ Logout
    \/ \E item \in Items : HandlerCreate(item)
    \/ \E options \in ListOptions : HandlerList(options)
    \/ \E query \in Queries : HandlerFind(query)
    \/ \E doc \in OtherDocs : ReplicatedDoc(doc)

SpecHandler == Init /\ [][NextHandler]_vars

\* the ids asked for: those of the documents stored, and one that is not
DocKeys == {d._id : d \in kv} \cup {<<"board", 0>>}

\* one replica under the writers and readers of its documents
NextDocs ==
    \/ \E e \in Emails : AuthStateChanged(e)
    \/ CreateBoard
    \/ \E id \in DocKeys : DbGet(id)
    \/ \E id \in DocKeys : HandlerRead(id)
    \/ \E id \in DocKeys, r \in Rewrites : RewriteGet(id, r[1], r[2])
    \/ RewritePut
    \/ \E item \in Items : HandlerCreate(item)

SpecDocs == Init /\ [][NextDocs]_vars

\* the tenant keys of the two tenants of this model, and one that shares the part
\* before '@' with the first and differs after it
TenantKeys == Emails \cup {<<"a", "y.com">>}

\* the activation of sessions for any of these tenant keys, one after another
NextIsolation ==
    \/ \E p \in Procs, t \in TenantKeys : InitBegin(p, t)
    \/ \E p \in Procs : InitOpen(p)
    \/ \E p \in Procs, t \in TenantKeys : SyncBegin(p, t)
    \/ \E p \in Procs : SyncRemote(p)
    \/ \E p \in Procs : SyncOpen(p)
    \/ \E p \in Procs : InitFinish(p)

SpecIsolation == Init /\ [][NextIsolation]_vars

\* the life cycle with the local write taken in two steps, its issue and its result
NextTeardown ==
    \/ \E p \in Procs, t \in Emails : InitBegin(p, t)
    \/ \E p \in Procs : InitOpen(p)
    \/ \E p \in Procs : SyncRemote(p)
    \/ \E p \in Procs : SyncOpen(p)
    \/ \E p \in Procs : InitFinish(p)
    \/ \E p \in Procs : CloseCall(p)
    \/ \E p \in Procs : CloseStep(p)
    \/ \E p \in Procs : CloseReturn(p)
    \/ \E p \in Procs : DocOpBegin(p)
    \/ \E p \in Procs : DocOpCheck(p)
    \/ \E p \in Procs : DocOpIssue(p)
    \/ \E p \in Procs : DocOpSettle(p)

SpecTeardown == Init /\ [][NextTeardown]_vars

\* the auth context: sign-in, tenant creation and verification, sign-out, and
\* the calls they make; the functions of the provider are called one after the
\* other, each when the one before has returned
NextAuth ==
    \/ \E e \in Emails : AuthStateChanged(e)
    \/ \E p \in AuthProcs, e \in Emails : Login(p, e)
    \/ \E p \in AuthProcs, t \in Emails : AuthCreateTenant(p, t)
    \/ \E p \in AuthProcs : AuthCreateResume(p)
    \/ \E p \in AuthProcs, t \in Emails : AuthVerifyTenant(p, t)
    \/ \E p \in AuthProcs : AuthVerifyResume(p)
    \/ Logout
    \/ \E c \in Callers : CreateGet(c)
    \/ \E c \in Callers : CreatePut(c)
    \/ \E c \in Callers : VerifyGet(c)
    \/ \E p \in Procs : InitOpen(p)
    \/ \E p \in Procs : SyncRemote(p)
    \/ \E p \in Procs : SyncOpen(p)
    \/ \E p \in Procs : InitFinish(p)

SpecAuth == Init /\ [][NextAuth]_vars

\* two sessions sharing one board, and the replication between them
NextShare ==
    \/ \E s \in Sessions, input \in ShareInputs : ShareGet(s, input)
    \/ \E s \in Sessions : SharePut(s)
    \/ \E src \in Databases, dst \in Databases : Replicate(src, dst)

SpecShare == Init /\ [][NextShare]_vars

\* a live replication with retry: true that is not torn down goes on until it has
\* nothing left to carry, in each direction
ReplicationFair ==
    \A src \in Databases : \A dst \in Databases : WF_vars(Replicate(src, dst))

\* the sessions sharing one board while their replications stay up
NextDelivery ==
    \/ \E s \in Sessions :
          ShareGet(s, IF s = "A" THEN <<"alice@x.com">> ELSE <<" ", "bob@x.com", " ">>)
    \/ \E s \in Sessions : SharePut(s)
    \/ \E src \in Databases : \E dst \in Databases : Replicate(src, dst)

SpecDelivery == Init /\ [][NextDelivery]_vars /\ ReplicationFair

(***************************************************************************)
(* Claims about the tenant access service                                  *)
(***************************************************************************)
Calls == 1..Len(hist)

IsCreate(i) == hist[i].op = "createTenant"

IsVerify(i) == hist[i].op = "verifyTenantAccess"

\* the call was neither cut short by a transport failure nor by missing configuration
NoFault(i) == hist[i].err \notin {"transport", "config"}

\* call j was started after call i had completed
After(i, j) == i < j /\ hist[j].start >= i

\* calls i and j were in progress at the same time
Overlap(i, j) == i < j /\ hist[j].start < i

\* no createTenant(t) had created the tenant before call i completed
FirstCreate(i) == \A k \in 1..(i - 1) :
                     ~(IsCreate(k) /\ hist[k].t = hist[i].t /\ hist[k].res = "true")

\* C1: createTenant(T) called twice in sequence returns true and then false, without
\* an error, and the second call leaves the members of the Tenant document as the
\* first call left them.
C1_CreateTwice ==
    \A i \in Calls : \A j \in Calls :
        (/\ IsCreate(i) /\ IsCreate(j) /\ hist[i].t = hist[j].t
         /\ j = i + 1 /\ After(i, j)
         /\ FirstCreate(i) /\ NoFault(i) /\ NoFault(j))
        => /\ hist[i].res = "true"
           /\ hist[j].res = "false"
           /\ hist[j].doc.users = hist[i].doc.users

\* C2: of two overlapping createTenant(T) calls for a tenant that does not exist yet,
\* one returns true and the other false; the conflict of the losing put is never
\* thrown to the caller.
C2_ConcurrentCreate ==
    \A i \in Calls : \A j \in Calls :
        (/\ IsCreate(i) /\ IsCreate(j) /\ hist[i].t = hist[j].t
         /\ Overlap(i, j)
         /\ FirstCreate(i) /\ NoFault(i) /\ NoFault(j))
        => /\ {hist[i].res, hist[j].res} = {"true", "false"}
           /\ hist[i].err # "conflict" /\ hist[j].err # "conflict"

\* C3: for a tenant T that does not exist yet, createTenant(T) returns true and a
\* verifyTenantAccess(T, P) started after it, P being the principal of T's key,
\* returns true.
C3_CreateThenVerify ==
    \A i \in Calls :
        (IsCreate(i) /\ FirstCreate(i) /\ NoFault(i))
        => /\ hist[i].res = "true"
           /\ \A j \in Calls :
                 (/\ IsVerify(j) /\ After(i, j) /\ NoFault(j)
                  /\ hist[j].t = hist[i].t /\ hist[j].p = hist[i].t)
                 => hist[j].res = "true"

C3_Witness ==
    \E i \in Calls : \E j \in Calls :
        /\ IsCreate(i) /\ FirstCreate(i) /\ hist[i].res = "true"
        /\ IsVerify(j) /\ j = i + 1 /\ After(i, j)
        /\ hist[j].t = hist[i].t /\ hist[j].p = hist[i].t
        /\ hist[j].res = "true"

\* C4: verifyTenantAccess(T, P) returns true exactly when the Tenant document of T
\* exists and lists P; it returns false, without error, when the document does not
\* exist (404); every other failure of the remote is thrown, never answered false.
C4_VerifyAccess ==
    \A i \in Calls :
        IsVerify(i) =>
          /\ hist[i].res = "true" <=> /\ hist[i].status = 200
                                      /\ hist[i].doc.exists
                                      /\ Includes(hist[i].doc.users, hist[i].p)
          /\ hist[i].status = 404 => (hist[i].res = "false" /\ ~hist[i].doc.exists)
          /\ hist[i].status \notin {200, 404} => hist[i].res = "throw"

\* a member has been answered true and a failure of the remote has been thrown
C4_Witness ==
    /\ \E i \in Calls : IsVerify(i) /\ hist[i].status = 200 /\ hist[i].res = "true"
    /\ \E i \in Calls : IsVerify(i) /\ hist[i].status = 500 /\ hist[i].res = "throw"

IsAdd(i) == hist[i].op = "addUserToTenant"

\* C16: an addUserToTenant whose put meets a stale revision, because another writer
\* came in between its get and its put, re-reads and tries again: it never fails
\* with the conflict.
C16_ConflictRetried ==
    \A i \in Calls : IsAdd(i) => hist[i].err # "conflict"

NoDup(seq) == \A i \in 1..Len(seq) : \A j \in 1..Len(seq) : i # j => seq[i] # seq[j]

\* every member of the first list is in the second
Subsumes(old, new) == \A i \in 1..Len(old) : Includes(new, old[i])

\* C17: addUserToTenant(T, P) is an idempotent union-add: no members list holds a
\* principal twice; after a successful call P is a member and so is everybody the
\* calls completed before it had left there; and a call started when P was a member
\* already makes no put.
C17_IdempotentAdd ==
    /\ \A id \in DocIds : NoDup(store[id].users)
    /\ \A i \in Calls :
          (IsAdd(i) /\ hist[i].res = "true")
          => /\ Includes(hist[i].doc.users, hist[i].p)
             /\ \A k \in Calls :
                   (k < i /\ hist[k].t = hist[i].t)
                   => Subsumes(hist[k].doc.users, hist[i].doc.users)
             /\ (\E k \in Calls : /\ After(k, i) /\ hist[k].t = hist[i].t
                                   /\ Includes(hist[k].doc.users, hist[i].p))
                => hist[i].status = 200

\* P has been added by a put, and a later call for the same P has returned true
\* without a put
C17_Witness ==
    \E i \in Calls : \E j \in Calls :
        /\ IsAdd(i) /\ hist[i].status = 201 /\ hist[i].res = "true"
        /\ IsAdd(j) /\ After(i, j) /\ hist[j].t = hist[i].t /\ hist[j].p = hist[i].p
        /\ hist[j].status = 200 /\ hist[j].res = "true"
        /\ hist[j].doc = hist[i].doc

\* C18: the owner of every existing Tenant document is one of its members.
C18_OwnerIsMember ==
    \A id \in DocIds : store[id].exists => Includes(store[id].users, store[id].owner)

\* a tenant has been created and a second member added to it
C18_Witness ==
    \E id \in DocIds : store[id].exists /\ Len(store[id].users) >= 2

\* C19: no step removes a member from a Tenant document or deletes the document.
C19_MembersMonotone ==
    [][\A id \in DocIds :
          store[id].exists => /\ store'[id].exists
                              /\ Subsumes(store[id].users, store'[id].users)]_vars

\* of two overlapping adds of different principals one was acknowledged and is in
\* the document, the other was rejected with the conflict
C19_Witness ==
    \E i \in Calls : \E j \in Calls :
        /\ IsAdd(i) /\ IsAdd(j) /\ hist[i].t = hist[j].t /\ hist[i].p # hist[j].p
        /\ i < j /\ hist[j].start < i /\ hist[i].start < j
        /\ hist[i].status = 201 /\ hist[j].err = "conflict"
        /\ Includes(store[hist[i].t].users, hist[i].p)

(***************************************************************************)
(* Claims about the session manager                                        *)
(***************************************************************************)
LiveSyncs == {s \in DOMAIN syncs : ~syncs[s].cancelled}

OpenDbs == {h \in DOMAIN dbs : dbs[h].status = "open"}

LiveFeeds == {f \in DOMAIN feeds : feeds[f].status = "live"}

\* C5: at any time at most one replication handle is uncancelled and one local
\* replica handle open, also when initialize / syncWithRemote calls overlap: no
\* sync handle is overwritten uncancelled, no replica handle is left open and none
\* is closed twice.
C5_SingleSession ==
    /\ Cardinality(LiveSyncs) <= 1
    /\ Cardinality(OpenDbs) <= 1
    /\ \A s \in DOMAIN syncs :
          syncs[s].replaced # 0 => syncs[syncs[s].replaced].cancelled
    /\ \A h \in DOMAIN dbs :
          dbs[h].closes <= IF dbs[h].status = "closed" THEN 0 ELSE 1

\* C6: when initialize(T2), called while a session for another tenant T1 is active,
\* has opened the T2 replica, the T1 replication is cancelled, the T1 replica is
\* closed and every feed that was registered on the T1 replica is cancelled.
C6_SwitchTearsDown ==
    \A p \in Procs :
        (ppc[p] = "sync_remote" /\ parg[p].via = "initialize" /\ parg[p].pre)
        => /\ dbs[parg[p].h].status = "closed"
           /\ \A s \in DOMAIN syncs : syncs[s].db = parg[p].h => syncs[s].cancelled
           /\ \A f \in 1..parg[p].nf :
                 feeds[f].db = parg[p].h => feeds[f].status # "live"

\* a statement of close() run by p calls close on the replica handle
ClosesReplica(p) ==
    /\ ppc[p] \in {"idle", "closing"}
    /\ ppc'[p] \in {"closing", "close_await"}
    /\ dbs' # dbs

\* a statement of close() run by p cancels the replication
CancelsReplication(p) ==
    /\ ppc[p] \in {"idle", "closing"}
    /\ ppc'[p] \in {"closing", "close_await"}
    /\ syncs' # syncs

\* C7: close() cancels the registered feeds first, then the replication, and calls
\* close on the local replica last: at that call no feed is live or registered and
\* the replication handle of the service, and any replication of that replica, is
\* cancelled.
C7_CloseOrder ==
    [][\A p \in Procs :
         /\ CancelsReplication(p) => (LiveFeeds = {} /\ activeChangesFeeds = {})
         /\ ClosesReplica(p) => /\ LiveFeeds = {}
                                /\ activeChangesFeeds = {}
                                /\ \A s \in LiveSyncs :
                                      s # syncHandler /\ syncs[s].db # db]_vars

\* close() has cancelled a feed and the replication of a session and awaits the
\* close of that session's replica
C7_Witness ==
    \E p \in Procs :
        /\ ppc[p] = "close_await" /\ parg[p].ok
        /\ syncHandler # 0 /\ syncs[syncHandler].cancelled
        /\ \E f \in DOMAIN feeds : feeds[f].db = db /\ feeds[f].status = "cancelled"

\* the handle is the replica of a session: a replication was started on it
IsSessionReplica(h) == \E s \in DOMAIN syncs : syncs[s].db = h

\* C8: after close() has returned, every feed obtained through changes() on the
\* replica of the session it tore down is cancelled or completed, so none delivers
\* a change.
C8_NoFeedAfterClose ==
    \A f \in tornDown : IsSessionReplica(feeds[f].db) => feeds[f].status # "live"

\* C9: close() called again on a torn-down service succeeds without error.
C9_CloseIdempotent ==
    (last.op = "close" /\ last.pre) => last.res = "ok"

\* C10: a document operation issued while an initialize is in progress waits for it
\* and does not fail with 'not initialized'.
C10_EnsureWaits ==
    (last.op = "doc" /\ last.pre) => last.err # "notinit"

\* C11: a document operation that has passed ensureInitialized runs on an open
\* replica handle: it is never rejected because the handle it uses is closed, also
\* after close() has been called and while an initialize replaces the handle.
C11_OpenWhenReady ==
    last.op = "doc" => last.err # "closed"

\* C14: when a remote connection parameter is absent, every initialize fails, with
\* the configuration error; no replication handle is started and the service never
\* reports a session (isInitialized stays false, no tenant id is set).
C14_MissingConfig ==
    ~envSet => /\ syncs = <<>>
               /\ ~isInitialized
               /\ tenantId = <<>>
               /\ last.op = "initialize" => (last.res = "throw" /\ last.err = "config")

\* a step is an event of the stream of replication s
StreamEvent(s) == syncs'[s].paused # syncs[s].paused

\* C20: an error on the stream of a replication, and the retry after it, change
\* neither the state of the session (isInitialized, the tenant id, the replica and
\* its handle, the replication handle) nor the outcome of a local read or write,
\* and they leave the replication uncancelled, so that it goes on trying.
C20_StreamErrorsLogged ==
    [][\A s \in DOMAIN syncs :
          StreamEvent(s)
          => /\ UNCHANGED <<isInitialized, tenantId, db, dbs, syncHandler>>
             /\ DocOutcomes(db)' = DocOutcomes(db)
             /\ ~syncs'[s].cancelled]_vars

\* a read or write has succeeded while the replication of the active session was
\* backing off after an error
C20_Witness ==
    /\ SessionActive /\ syncs[syncHandler].paused
    /\ last.op = "doc" /\ last.res = "ok"

(***************************************************************************)
(* Claims about the auth context                                           *)
(***************************************************************************)
\* C12: the auth context activates a session for tenant T (the T replica opened and
\* its replication started by initialize) only on the ground that
\* verifyTenantAccess(T, P) returned true or that createTenant(T) created the tenant,
\* P being the signed-in user, and P is then a member of T.
C12_VerifiedActivation ==
    \A p \in Procs :
        (ppc[p] = "init_finish" /\ parg[p].by # "none")
        => /\ parg[p].by \in {"verified", "created"}
           /\ Includes(store[parg[p].t].users, parg[p].u)

\* C13: when logout() has completed while a session was active, the replication is
\* cancelled and the local replica is closed.
C13_LogoutTearsDown ==
    (last.op = "logout" /\ last.pre) => (LiveSyncs = {} /\ OpenDbs = {})

(***************************************************************************)
(* Claims about shared documents                                           *)
(***************************************************************************)
Alice == <<"alice@x.com">>

Bob == <<"bob@x.com">>

\* every database holds the same revisions
Converged == \A d \in Databases : replicas[d] = replicas["remote"]

\* C15: when session A has shared the board with alice and session B with bob, both
\* from revision R1, and the databases have converged, the collaborators of the
\* board contain alice and bob.
C15_ShareConverges ==
    (/\ Converged
     /\ \A s \in Sessions : hpc[s] = "idle" /\ harg[s].res = "ok"
                                              /\ harg[s].rev = R1.path
     /\ harg["A"].email = Alice /\ harg["B"].email = Bob)
    => /\ Includes(Winner(replicas["remote"]).collaborators, Alice)
       /\ Includes(Winner(replicas["remote"]).collaborators, Bob)

\* the revision ids a write can produce
Paths == UNION {[1..n -> Sessions] : n \in 1..MaxShares}

\* the database holds the revision, as a leaf or as the ancestor of one
Holds(d, path) ==
    \E q \in replicas[d] : /\ Len(q.path) >= Len(path)
                            /\ SubSeq(q.path, 1, Len(path)) = path

C22_WriteSurvivesTeardown ==
    [][\A p \in Procs :
          ppc[p] = "doc_await" /\ parg[p].open /\ ppc'[p] = "idle"
              => last'.res = "ok"]_vars

\* the load has stored its result, the feed is live and has delivered every change,
\* and no handler is waiting behind a put
Settled ==
    cpc.load = "done" /\ cpc.feed = "live" /\ bq = <<>> /\ conts = <<>>

\* the entries of the projection that show a shape
Shown(c) == {i \in DOMAIN drawingState.shapes : drawingState.shapes[i].content = c}

\* C23: once the load, the feed and the handlers have settled, no shape appears in
\* the projection more often than it was committed to the replica, and no two
\* entries of the projection share an id.
C23_ShapeOnce ==
    Settled =>
        /\ \A d \in sdocs :
              Cardinality(Shown(d.content)) <=
                  Cardinality({e \in sdocs : e.content = d.content})
        /\ \A i, j \in DOMAIN drawingState.shapes :
              i # j /\ drawingState.shapes[i] # NoShape
                  => drawingState.shapes[i].id # drawingState.shapes[j].id

\* C24: once the load and the feed have settled, every shape that is in the local
\* replica is in the projection, whenever it was written.
C24_NoChangeDropped ==
    Settled => \A d \in sdocs : Shown(d.content) # {}

\* C25: when handleDeleteBoard has completed, the local replica holds no shape of the
\* board, and when it has failed the Board document is not gone with shapes left.
C25_DeleteCascades ==
    /\ cpc.del = "done" => sdocs = {}
    /\ cpc.del = "failed" => bdoc.exists \/ sdocs = {}

\* C26: a step removes the Board document or a shape of the board only when the
\* signed-in user is the one the Board document names as its creator; a call of
\* handleDeleteBoard by anybody else returns with the replica as it was, and nothing
\* follows from it.
C26_OwnerOnlyDelete ==
    [][/\ (bdoc' # bdoc \/ ~(sdocs \subseteq sdocs')) => user = bdoc.createdBy
       /\ (cpc.del = "idle" /\ cpc'.del # "idle" /\ user # bdoc.createdBy)
              => cpc'.del = "refused" /\ bdoc' = bdoc /\ sdocs' = sdocs
       /\ cpc.del = "refused" => cpc'.del = "refused"]_vars

\* a signed-in user who is not the owner has pressed delete on a loaded board that
\* has shapes
C26_Witness ==
    /\ cpc.del = "refused" /\ boardState.board # NoBoard
    /\ user # <<>> /\ user # bdoc.createdBy
    /\ bdoc.exists /\ sdocs # {}

\* the owner has deleted the board
C26_OwnerDeleted ==
    cpc.del = "done" /\ user = bdoc.createdBy /\ ~bdoc.exists

\* C27: no step changes the createdBy of a stored document.
C27_CreatedByImmutable ==
    [][\A d \in kv : \A e \in kv' : d._id = e._id => e.createdBy = d.createdBy]_vars

\* a read has returned a document that a completed write of this replica stored
ReadBack ==
    klast.op \in {"get", "read"} /\ klast.res = "ok" /\ klast.id \in DOMAIN written

\* the fields create() sets itself
Assigned == {"_id", "type", "tenantId"}

\* C28 as stated: a document read back equals what its last completed write was
\* given, the revision apart.
C28_RoundTrip ==
    ReadBack => Strip(klast.out) = Strip(written[klast.id].input)

\* C28: a document read back equals what its last completed put was given, the
\* revision apart; after create(item) it has the fields of the item and _id, type and
\* tenantId, these three as create set them (the generated key, the collection name,
\* the tenant id of the operations object) and every other field as in the item.
C28_RoundTripAssigned ==
    ReadBack =>
        LET w == written[klast.id]
            given == Strip(w.input)
            out == Strip(klast.out)
        IN  IF w.via = "create"
            THEN /\ DOMAIN out = DOMAIN given \cup Assigned
                 /\ \A k \in DOMAIN given \ Assigned : out[k] = given[k]
                 /\ out._id = klast.id
                 /\ out.type = collectionName
                 /\ out.tenantId = w.t
            ELSE out = given

\* a document made by create() of an item that had an id and a tenant of its own has
\* been read back
C28_Witness ==
    /\ ReadBack
    /\ written[klast.id].via = "create"
    /\ "tenantId" \in DOMAIN written[klast.id].input

\* a document written by a put has been read back after a rewrite of it
C28_PutReadBack ==
    ReadBack /\ written[klast.id].via = "put" /\ klast.out._rev > 1

\* C29: when verifyTenant has failed, the error it recorded tells the cause: the
\* configuration error is recorded only when the remote configuration is missing, and
\* 'not authorized' only when the tenant exists and does not list the principal.
C29_FailuresDistinguishable ==
    (last.op = "verifyTenant" /\ last.res = "false") =>
        /\ last.err = "config" => ~envSet
        /\ last.err = "unauthorized" => Answer.status = 200

\* C30: two replications set up for different tenant keys never pair the same local
\* replica name, nor the same remote replica URL: the session of one tenant never
\* reads, writes or replicates the documents of another, also when the two keys share
\* the part before '@'.
C30_TenantIsolation ==
    \A s1 \in DOMAIN syncs : \A s2 \in DOMAIN syncs :
        syncs[s1].key # syncs[s2].key =>
            /\ syncs[s1].local # syncs[s2].local
            /\ syncs[s1].remote # syncs[s2].remote

\* the positions of the projection that show the shape of a document
EntriesOf(doc) ==
    {i \in DOMAIN drawingState.shapes : drawingState.shapes[i].id = SplitId(doc._id)}

\* C31: a Shape document deleted from the local replica while the feed is live is
\* delivered to the feed as a deletion, and once the feed has processed a deletion
\* the projection has no shape with the id of the deleted document.
C31_DeleteRemovesShape ==
    [][/\ cpc.feed = "live" =>
              \A d \in sdocs \ sdocs' :
                  \E i \in DOMAIN bq' : bq'[i]._id = d._id /\ bq'[i].deleted
       /\ (bq # <<>> /\ bq' = Tail(bq) /\ Head(bq).deleted) =>
              \A i \in DOMAIN drawingState'.shapes :
                  drawingState'.shapes[i].id # SplitId(Head(bq)._id)]_vars

\* the Shape document of the local replica an entry of the projection shows
DocsOf(entry) == {d \in sdocs : SplitId(d._id) = entry.id}

\* C32: once the feed has processed every change, the projection is ordered by the
\* creation times the Shape documents record.
C32_OrderedByCreatedAt ==
    (cpc.feed = "live" /\ bq = <<>>) =>
        \A i, j \in DOMAIN drawingState.shapes :
            i < j => \A d \in DocsOf(drawingState.shapes[i]) :
                         \A e \in DocsOf(drawingState.shapes[j]) :
                             d.createdAt <= e.createdAt

IsCursor(d) == d.type = "cursor"

\* C34: once the feed has processed every change, no cursor among those rendered
\* belongs to a Cursor document last updated more than CURSOR_TTL ago.
C34_StaleCursorsHidden ==
    (cpc.feed = "live" /\ bq = <<>>) =>
        \A c \in RenderedCursors :
            \A d \in Stored(CursorId(c.userId)) : now - d.lastUpdated <= CURSOR_TTL

\* C35: the replica holds at most one Cursor document for a board and a user, a
\* write of a cursor leaves the Cursor documents of every other board and user in
\* the replica, and a completed updateCursor leaves the position it wrote.
C35_CursorPerBoardAndUser ==
    [][/\ \A d \in kv : IsCursor(d) =>
              \E e \in kv' : /\ IsCursor(e) /\ e.userId = d.userId
                             /\ e.boardId = d.boardId
       /\ \A d \in kv' : \A e \in kv' :
              (/\ IsCursor(d) /\ IsCursor(e)
               /\ d.userId = e.userId /\ d.boardId = e.boardId) => d = e
       /\ (kpc = "cursor" /\ kpc' = "idle" /\ klast'.res = "ok") =>
              \E e \in kv' : /\ IsCursor(e) /\ e.userId = karg.doc.userId
                             /\ e.boardId = karg.doc.boardId /\ e.x = karg.doc.x]_vars

\* C36: a change of the Board document made while the feed is live is delivered to the
\* feed, as a deletion when it is one; once the feed has processed a change of the
\* Board document the projection shows the board as the document has it.
C36_BoardChangeProjected ==
    [][/\ (cpc.feed = "live" /\ bdoc' # bdoc) =>
              \E i \in DOMAIN bq' : /\ bq'[i]._id = <<"board", boardId>>
                                    /\ bq'[i].deleted = ~bdoc'.exists
       /\ (bq # <<>> /\ bq' = Tail(bq) /\ Head(bq).type = "board") =>
              boardState'.board = [createdBy |-> Head(bq).createdBy,
                                   name |-> Head(bq).name]]_vars

\* C37: the local replica holds at most one Shape document for one gesture, that is
\* for one shape handleMouseDown has begun.
C37_OneShapePerGesture ==
    \A d \in sdocs : \A e \in sdocs : d.content = e.content => d = e

\* the names of the local and of the remote replica of the tenant getTenantId() reports
NameOfTenantId(tid) == <<tid[1], "-collaborative-board">>

UrlOfTenantId(tid) == <<"VITE_COUCHDB_URL", tid[1], "-collaborative-board">>

\* C38: whenever no call of the service is in progress, the open replica of a tenant
\* is the one named after getTenantId(), and the running replication pairs the local
\* and the remote replica of that tenant.
C38_TenantIdMatchesReplica ==
    (\A p \in Procs : ppc[p] = "idle") =>
        /\ (dbs[db].status = "open" /\ dbs[db].name # TempDb.name) =>
              tenantId # <<>> /\ dbs[db].name = NameOfTenantId(tenantId)
        /\ (syncHandler # 0 /\ ~syncs[syncHandler].cancelled) =>
              /\ tenantId # <<>>
              /\ syncs[syncHandler].db = db
              /\ syncs[syncHandler].local = NameOfTenantId(tenantId)
              /\ syncs[syncHandler].remote = UrlOfTenantId(tenantId)

\* create, list or find has just completed
JustDone(op) == klast' # klast /\ klast'.op = op /\ klast'.res = "ok"

\* C39: a create, a list or a find that completes while a user is signed in has used
\* the tenant id of that user for the key prefix, the tenantId field and the scope of
\* the query.
C39_TenantOfCurrentUser ==
    [][(user # <<>> /\ (JustDone("create") \/ JustDone("list") \/ JustDone("find")))
          => klast'.id[1] = InitializeTenant(user)]_vars

\* C40: whatever the caller passes, find returns only documents of the operations
\* object's tenant and collection, and list returns exactly the documents whose key
\* begins with the prefix of that tenant and collection.
C40_ScopeNotWidened ==
    [][/\ JustDone("find") =>
              \A d \in klast'.out :
                  d.tenantId = klast'.id[1] /\ d.type = collectionName
       /\ JustDone("list") =>
              klast'.out = {d \in kv : IsPrefix(klast'.id, d._id)}]_vars

====
